---- MODULE Spec2Model ----
(***************************************************************************)
(* Segment-to-discount resolution and order-line construction pipeline of  *)
(* the discount-editor application.                                        *)
(*                                                                         *)
(* The request handlers are modelled over one Plan Store:                  *)
(*   - the Offer route  (segment-offer action, unnamed/part_020:27-470)    *)
(*   - the Order routes (api.check-segment-discount.tsx action and         *)
(*     api.create-real-draft-order.tsx / unnamed/part_018 action)          *)
(*   - the admin routes that write plans, and the draft-order routes that  *)
(*     read none (api.simple-draft-order.tsx, unnamed/part_019, part_009)  *)
(* Every await of a handler is a step of the model; the synchronous code   *)
(* between two awaits belongs to the step that precedes it.                *)
(*                                                                         *)
(* Strings that the code inspects character by character (tags, segment    *)
(* names, targetKeys) are sequences of one-character strings.  Money is    *)
(* kept in hundredths of the currency unit, so that x * percentOff / 100   *)
(* is exact on the inputs drawn here.                                      *)
(***************************************************************************)
EXTENDS Integers, Sequences, FiniteSets, TLC

----------------------------------------------------------------------------
(* Bounds of the input universes                                           *)

MaxRules == 3      \* longest rule list of the single-plan store profile
MaxPlans == 3      \* most plans fetched together in the selector profile
MaxKeyPlans == 2   \* most plans in the targetKey-variety profile
MaxTags == 2       \* longest customer tag list

----------------------------------------------------------------------------
(* Strings                                                                 *)

LowerChars == <<"a","b","c","d","e","f","g","h","i","j","k","l","m",
                "n","o","p","q","r","s","t","u","v","w","x","y","z">>
UpperChars == <<"A","B","C","D","E","F","G","H","I","J","K","L","M",
                "N","O","P","Q","R","S","T","U","V","W","X","Y","Z">>

\* String.prototype.toLowerCase on one character
ToLowerChar(c) ==
  IF \E i \in 1..26 : UpperChars[i] = c
  THEN LowerChars[CHOOSE i \in 1..26 : UpperChars[i] = c]
  ELSE c

\* String.prototype.toUpperCase on one character
ToUpperChar(c) ==
  IF \E i \in 1..26 : LowerChars[i] = c
  THEN UpperChars[CHOOSE i \in 1..26 : LowerChars[i] = c]
  ELSE c

toLowerCase(s) == [i \in 1..Len(s) |-> ToLowerChar(s[i])]
toUpperCase(s) == [i \in 1..Len(s) |-> ToUpperChar(s[i])]

\* tag.charAt(0).toUpperCase() + tag.slice(1)
Capitalize(s) == [i \in 1..Len(s) |-> IF i = 1 THEN ToUpperChar(s[i]) ELSE s[i]]

\* s.includes(t)
includes(s, t) ==
  \E i \in 0..(Len(s) - Len(t)) : SubSeq(s, i + 1, i + Len(t)) = t

\* the literal `gid://shopify/Segment/`
SegmentGidPrefix ==
  <<"g","i","d",":","/","/","s","h","o","p","i","f","y","/",
    "S","e","g","m","e","n","t","/">>

\* `gid://shopify/Segment/${tag}`
SegmentGid(tag) == SegmentGidPrefix \o tag

SeqsUpTo(S, n) == UNION { [1..k -> S] : k \in 0..n }

\* array.map(f) for a sequence of strings
MapSeq(s, f(_)) == [i \in 1..Len(s) |-> f(s[i])]

\* the set of elements of an array
Range(s) == { s[i] : i \in 1..Len(s) }

----------------------------------------------------------------------------
(* Plan Store: DiscountPlan and Rule records                               *)

Collection1 == "gid://shopify/Collection/1"
Collection2 == "gid://shopify/Collection/2"
Categories == {Collection1, Collection2}

\* collectionId.replace("gid://shopify/Collection/", "")
NumericId(c) ==
  CASE c = Collection1 -> "1"
    [] c = Collection2 -> "2"
    [] OTHER -> c

\* Rule.percentOff values held by the store (the write path only rejects NaN)
Percents == {0, 10, 20}

Rules == [categoryId : Categories, percentOff : Percents]

PlanNames == <<"Plan A", "Plan B", "Plan C", "Plan D", "Plan E">>

sVip == <<"v","i","p">>
sVIP == <<"V","I","P">>
sVipCap == <<"V","i","p">>
sViP == <<"V","i","P">>
sGold == <<"g","o","l","d">>
sVipGold == <<"v","i","p","-","g","o","l","d">>
sEmpty == << >>

\* targetKey encodings found in the store: name in several casings, prefixed id
TargetKeys == {sVip, sVIP, sVipCap, sViP, SegmentGid(sVip), sGold}

\* raw customer tags
TagUniverse == {sVip, sVIP, sGold, sVipGold, sEmpty}

\* a store row list, ids and names given by position (fetch order = row order)
MkStore(bodies) ==
  [i \in 1..Len(bodies) |->
     [id |-> i, name |-> PlanNames[i], targetType |-> bodies[i].targetType,
      targetKey |-> bodies[i].targetKey, rules |-> bodies[i].rules]]

\* one plan for segment "vip" with any rule list
ResolverStores ==
  { MkStore(<<[targetType |-> "segment", targetKey |-> sVip, rules |-> rs]>>) :
      rs \in SeqsUpTo(Rules, MaxRules) }

\* several plans for segment "vip", each with at most one rule
SelectorStores ==
  { MkStore(bs) :
      bs \in SeqsUpTo([targetType : {"segment"}, targetKey : {sVip},
                       rules : SeqsUpTo(Rules, 1)], MaxPlans) }

\* plans whose targetKey uses the different encodings
CascadeStores ==
  { MkStore(bs) :
      bs \in SeqsUpTo([targetType : {"segment"}, targetKey : TargetKeys,
                       rules : { <<[categoryId |-> Collection1, percentOff |-> 10]>>,
                                 <<[categoryId |-> Collection2, percentOff |-> 20]>> }]
                      \cup [targetType : {"customer"}, targetKey : {sVip},
                            rules : { <<[categoryId |-> Collection1, percentOff |-> 20]>> }],
                      MaxKeyPlans) }

\* plans for two segments under plain and upper-case keys, met by several tags
CascadePairStores ==
  { MkStore(bs) :
      bs \in SeqsUpTo([targetType : {"segment"}, targetKey : {sVip, sVIP, sGold},
                       rules : { <<[categoryId |-> Collection1, percentOff |-> 10]>>,
                                 <<[categoryId |-> Collection2, percentOff |-> 20]>> }],
                      MaxKeyPlans) }

\* a query that compares keys ignoring case
FindManyByKeysAnyCase(store, keys) ==
  SelectSeq(store, LAMBDA p : /\ p.targetType = "segment"
                              /\ \E k \in keys : toLowerCase(p.targetKey) = toLowerCase(k))

\* prisma.discountPlan.findMany({where: {targetType: "segment", targetKey: {in: keys}}, include rules})
FindManyByKeys(store, keys) ==
  SelectSeq(store, LAMBDA p : p.targetType = "segment" /\ p.targetKey \in keys)

\* prisma.discountPlan.findMany({where: {targetType: "segment"}, include rules})
FindManySegmentPlans(store) ==
  SelectSeq(store, LAMBDA p : p.targetType = "segment")

\* prisma.discountPlan.findFirst({where: {targetType: "segment", targetKey: key}, include rules})
FindFirstByKey(store, key) ==
  LET found == FindManyByKeys(store, {key})
  IN IF Len(found) = 0 THEN [id |-> 0] ELSE found[1]

----------------------------------------------------------------------------
(* Plan Selector and Rule Resolver                                         *)

Max2(a, b) == IF a > b THEN a ELSE b

\* plan.rules.reduce((max, r) => Math.max(max, r.percentOff), 0)
RECURSIVE PlanMaxFrom(_, _, _)
PlanMaxFrom(rules, i, max) ==
  IF i > Len(rules) THEN max
  ELSE PlanMaxFrom(rules, i + 1, Max2(max, rules[i].percentOff))

planMax(plan) == PlanMaxFrom(plan.rules, 1, 0)

NoPlan == [id |-> 0]

\* a loop body that accepts a plan on planMax >= bestPlanMaxPercent
BestPlanStepGe(acc, plan) ==
  IF planMax(plan) >= acc.bestPlanMaxPercent
  THEN [bestPlan |-> plan, bestPlanMaxPercent |-> planMax(plan)]
  ELSE acc

\* if (planMax > bestPlanMaxPercent) { bestPlanMaxPercent = planMax; bestPlan = plan; }
BestPlanStep(acc, plan) ==
  IF planMax(plan) > acc.bestPlanMaxPercent
  THEN [bestPlan |-> plan, bestPlanMaxPercent |-> planMax(plan)]
  ELSE acc

\* for (const plan of discountPlans) {...}
RECURSIVE BestPlanFrom(_, _, _)
BestPlanFrom(dps, i, acc) ==
  IF i > Len(dps) THEN acc
  ELSE BestPlanFrom(dps, i + 1, BestPlanStep(acc, dps[i]))

\* a selection that starts below every percentage
SelectBestPlanFromBelow(dps) ==
  BestPlanFrom(dps, 1, [bestPlan |-> NoPlan, bestPlanMaxPercent |-> -1])

\* a selection that takes the first candidate
SelectFirstPlan(dps) ==
  IF Len(dps) = 0 THEN [bestPlan |-> NoPlan, bestPlanMaxPercent |-> 0]
  ELSE [bestPlan |-> dps[1], bestPlanMaxPercent |-> planMax(dps[1])]

\* let bestPlan = null; let bestPlanMaxPercent = 0; for (...)
SelectBestPlan(dps) ==
  BestPlanFrom(dps, 1, [bestPlan |-> NoPlan, bestPlanMaxPercent |-> 0])

EmptyMap == [c \in {} |-> 0]

\* a reducer that never overwrites an entry
RuleMapStepKeepFirst(m, rule) ==
  IF rule.categoryId \notin DOMAIN m
  THEN [c \in (DOMAIN m) \cup {rule.categoryId} |->
          IF c = rule.categoryId THEN rule.percentOff ELSE m[c]]
  ELSE m

\* a reducer that always overwrites the entry
RuleMapStepKeepLast(m, rule) ==
  [c \in (DOMAIN m) \cup {rule.categoryId} |->
     IF c = rule.categoryId THEN rule.percentOff ELSE m[c]]

\* if (existing == null || rule.percentOff > existing) ruleMap[rule.categoryId] = rule.percentOff
RuleMapStep(m, rule) ==
  IF rule.categoryId \notin DOMAIN m \/ rule.percentOff > m[rule.categoryId]
  THEN [c \in (DOMAIN m) \cup {rule.categoryId} |->
          IF c = rule.categoryId THEN rule.percentOff ELSE m[c]]
  ELSE m

\* bestPlan.rules.forEach(...)
RECURSIVE BuildRuleMap(_, _, _)
BuildRuleMap(rules, i, m) ==
  IF i > Len(rules) THEN m
  ELSE BuildRuleMap(rules, i + 1, RuleMapStep(m, rules[i]))

ResolveRules(rules) == BuildRuleMap(rules, 1, EmptyMap)

\* Object.keys(ruleMap): string keys in order of first insertion
RECURSIVE KeysFrom(_, _, _)
KeysFrom(rules, i, ks) ==
  IF i > Len(rules) THEN ks
  ELSE KeysFrom(rules, i + 1,
         IF rules[i].categoryId \in Range(ks) THEN ks
         ELSE Append(ks, rules[i].categoryId))

\* a key list that holds the first rule's collection only
ObjectKeysFirst(rules) == KeysFrom(SubSeq(rules, 1, 1), 1, << >>)

ObjectKeys(rules) == KeysFrom(rules, 1, << >>)

----------------------------------------------------------------------------
(* Catalog: collection metadata                                            *)

TitleOf(c) ==
  CASE c = Collection1 -> "Summer"
    [] c = Collection2 -> "Winter"
    [] OTHER -> ""

HandleOf(c) ==
  CASE c = Collection1 -> "summer"
    [] c = Collection2 -> "winter"
    [] OTHER -> ""

\* a fallback that leaves the title empty
FallbackTitleEmpty(c) == ""

\* `Collection ${numericId}`
FallbackTitle(c) ==
  CASE c = Collection1 -> "Collection 1"
    [] c = Collection2 -> "Collection 2"
    [] OTHER -> "Collection"

----------------------------------------------------------------------------
(* State                                                                   *)

VARIABLES
  plans,               \* Plan Store rows (DiscountPlan with its rules), in fetch order
  opc,                 \* Offer route: position of the request
  offerRequest,        \* Offer route: the request received
  customerTags,        \* Offer route: customer.tags.map(toLowerCase)
  discountPlans,       \* Offer route: candidate plans of the last store query
  strategiesRun,       \* Offer route: cascade strategies evaluated, in order
  bestPlan,            \* Offer route: selected plan or NoPlan
  bestPlanMaxPercent,  \* Offer route: planMax of the selected plan
  ruleMap,             \* Offer route: categoryId -> percentOff of the selected plan
  collectionIds,       \* Offer route: Object.keys(ruleMap)
  metadataFetch,       \* Offer route: how the collection metadata fetch went
  metadataCalls,       \* Offer route: the store path's call per collection
  offerResponse        \* Offer route: the response sent

offerVars == <<opc, offerRequest, customerTags, discountPlans, strategiesRun,
               bestPlan, bestPlanMaxPercent, ruleMap, collectionIds, metadataFetch,
               metadataCalls, offerResponse>>

VARIABLES
  orderRequest,         \* the request: route, shop, customerId, cartItems
  world,                \* the Catalog/Customer Service: customer tags, segments, failing Oracle
  pc,                   \* position of the order request
  trace,                \* stages the request has passed through
  processedCartItems,   \* cart lines after format handling
  matchedSegment,       \* segment matched to the customer's tags, or NoSegment
  discountPlan,         \* plan found for the segment, or NoPlan
  lineIx,               \* cart line being checked
  ruleIx,               \* rule being checked for that line
  bestPercentOff,       \* best percentage found so far for the line
  bestDiscount,         \* rule that supplied it, or NoRule
  applicableDiscounts,  \* applied-discount records
  linePercents,         \* percentOff computed for each finished line (0 = none)
  totalOriginalPrice,
  totalDiscountAmount,
  memberCalls,          \* Membership Oracle calls issued: <<line, rule>>
  reports,              \* what the Oracle call of each rule returned, per line
  failedCalls,          \* Oracle calls that failed: set of <<line, rule>>
  fetchCalls,           \* customer and segment catalog fetches issued
  fetchResults,         \* how each of these fetches went, in call order
  sinkCalls,            \* payloads submitted to the Order Sink
  sinkResult,           \* what the Order Sink answered, or NoSinkResult
  orderResponse         \* the response sent

orderVars == <<orderRequest, world, pc, trace, processedCartItems, matchedSegment,
               discountPlan, lineIx, ruleIx, bestPercentOff, bestDiscount,
               applicableDiscounts, linePercents, totalOriginalPrice,
               totalDiscountAmount, memberCalls, reports, failedCalls, fetchCalls,
               fetchResults, sinkCalls, sinkResult, orderResponse>>

VARIABLE admins  \* admin requests in flight: the form, the position, the answer
VARIABLE normalizer  \* a normalizer call: the function, its argument, f(x) and f(f(x))
VARIABLE draft  \* a request of a simple or discounted draft-order route

NoResponse == [status |-> 0]

OfferRequestKinds == {"ok", "noCustomerData", "badJson", "noId", "noTags"}

\* the handler has been entered with the request; nothing is computed yet
OfferInit ==
  /\ opc = "received"
  /\ customerTags = << >>
  /\ discountPlans = << >>
  /\ strategiesRun = << >>
  /\ bestPlan = NoPlan
  /\ bestPlanMaxPercent = 0
  /\ ruleMap = EmptyMap
  /\ collectionIds = << >>
  /\ metadataFetch = "none"
  /\ metadataCalls = << >>
  /\ offerResponse = NoResponse

----------------------------------------------------------------------------
(* Offer route  (unnamed/part_020:27-470)                                  *)

\* { success: true, offer: { discountApplicable: false }, customer }
\* a no-match answer that reports an error
NoOfferResponseNotFound ==
  [status |-> 404, success |-> FALSE, error |-> "No discount plan found"]

NoOfferResponse ==
  [status |-> 200, success |-> TRUE, offer |-> [discountApplicable |-> FALSE]]

\* customerTags.find(tag => targetKey.toLowerCase().includes(tag) || tag.includes(targetKey.toLowerCase()))
\* followed by `matchingTag || bestPlan.targetKey`
SegmentNameFor(tags, targetKey) ==
  LET hit(i) == \/ includes(toLowerCase(targetKey), tags[i])
                \/ includes(tags[i], toLowerCase(targetKey))
      hits == { i \in 1..Len(tags) : hit(i) }
      first == CHOOSE i \in hits : \A j \in hits : i <= j
  IN IF hits = {} \/ tags[first] = << >> THEN targetKey ELSE tags[first]

\* request parsing and validation, lines 34-77
OfferReceive ==
  /\ opc = "received"
  /\ offerRequest.kind # "none"
  /\ IF offerRequest.kind = "ok"
     THEN /\ customerTags' = MapSeq(offerRequest.tags, toLowerCase)
          /\ opc' = "strategy1"
          /\ offerResponse' = offerResponse
     ELSE /\ customerTags' = customerTags
          /\ opc' = "done"
          /\ offerResponse' = [status |-> 400]
  /\ UNCHANGED <<normalizer, draft, admins, orderVars, plans, offerRequest, discountPlans, strategiesRun, bestPlan,
                 bestPlanMaxPercent, ruleMap, collectionIds, metadataFetch, metadataCalls>>

\* the synchronous code that follows the cascade, lines 188-240:
\* no candidates / no best plan => no offer; otherwise the rule map is built
AfterCascade(dps) ==
  LET sel == SelectBestPlan(dps)
  IN IF Len(dps) = 0
     THEN /\ opc' = "done"
          /\ offerResponse' = NoOfferResponse
          /\ UNCHANGED <<bestPlan, bestPlanMaxPercent, ruleMap, collectionIds, metadataFetch, metadataCalls>>
     ELSE /\ bestPlan' = sel.bestPlan
          /\ bestPlanMaxPercent' = sel.bestPlanMaxPercent
          /\ IF sel.bestPlan = NoPlan \/ Len(sel.bestPlan.rules) = 0
             THEN /\ opc' = "done"
                  /\ offerResponse' = NoOfferResponse
                  /\ UNCHANGED <<ruleMap, collectionIds, metadataFetch, metadataCalls>>
             ELSE /\ ruleMap' = ResolveRules(sel.bestPlan.rules)
                  /\ collectionIds' = ObjectKeys(sel.bestPlan.rules)
                  /\ UNCHANGED <<metadataFetch, metadataCalls>>
                  /\ opc' = "collections"
                  /\ offerResponse' = offerResponse

\* a cascade that goes on to the next strategy whatever was found
CascadeStepNoStop(k, found, next) ==
  /\ discountPlans' = found
  /\ strategiesRun' = Append(strategiesRun, k)
  /\ IF next # "none"
     THEN /\ opc' = next
          /\ UNCHANGED <<bestPlan, bestPlanMaxPercent, ruleMap, collectionIds, metadataFetch, metadataCalls, offerResponse>>
     ELSE AfterCascade(found)
  /\ UNCHANGED <<normalizer, draft, admins, orderVars, plans, offerRequest, customerTags>>

\* one store query of the cascade; the next strategy runs only
\* `if (discountPlans.length === 0)`
CascadeStep(k, found, next) ==
  /\ discountPlans' = found
  /\ strategiesRun' = Append(strategiesRun, k)
  /\ IF Len(found) = 0 /\ next # "none"
     THEN /\ opc' = next
          /\ UNCHANGED <<bestPlan, bestPlanMaxPercent, ruleMap, collectionIds, metadataFetch, metadataCalls, offerResponse>>
     ELSE AfterCascade(found)
  /\ UNCHANGED <<normalizer, draft, admins, orderVars, plans, offerRequest, customerTags>>

\* lines 87-95: targetKey in customerTags
OfferStrategy1 ==
  /\ opc = "strategy1"
  /\ CascadeStep(1, FindManyByKeys(plans, Range(customerTags)), "strategy2")

\* lines 100-121: targetKey in `gid://shopify/Segment/${tag}`
OfferStrategy2 ==
  /\ opc = "strategy2"
  /\ CascadeStep(2, FindManyByKeys(plans, Range(MapSeq(customerTags, SegmentGid))), "strategy3")

\* lines 124-139: targetKey in tag.toUpperCase()
OfferStrategy3 ==
  /\ opc = "strategy3"
  /\ CascadeStep(3, FindManyByKeys(plans, Range(MapSeq(customerTags, toUpperCase))), "strategy4")

\* lines 142-159: targetKey in capitalized tags
OfferStrategy4 ==
  /\ opc = "strategy4"
  /\ CascadeStep(4, FindManyByKeys(plans, Range(MapSeq(customerTags, Capitalize))), "strategy5")

\* a filter that accepts containment in either direction
ContainsMatchEitherWay(store, tags) ==
  SelectSeq(FindManySegmentPlans(store),
            LAMBDA p : \E i \in 1..Len(tags) :
                         \/ includes(toLowerCase(p.targetKey), tags[i])
                         \/ includes(tags[i], toLowerCase(p.targetKey)))

\* lines 162-186: targetKey.toLowerCase() includes some tag
ContainsMatch(store, tags) ==
  SelectSeq(FindManySegmentPlans(store),
            LAMBDA p : \E i \in 1..Len(tags) : includes(toLowerCase(p.targetKey), tags[i]))

OfferStrategy5 ==
  /\ opc = "strategy5"
  /\ CascadeStep(5, ContainsMatch(plans, customerTags), "none")

\* collections.map(...) with the metadata found for `known` ids, lines 379-395;
\* known = {} gives the fallback arrays of lines 398-411 and 418-431
CollectionsWith(ids, map, known) ==
  [i \in 1..Len(ids) |->
     [id |-> NumericId(ids[i]),
      title |-> IF ids[i] \in known THEN TitleOf(ids[i]) ELSE FallbackTitle(ids[i]),
      name |-> IF ids[i] \in known THEN TitleOf(ids[i]) ELSE FallbackTitle(ids[i]),
      handle |-> IF ids[i] \in known THEN HandleOf(ids[i]) ELSE "",
      percentOff |-> map[ids[i]]]]

\* the answer with the offer, lines 433-458; `seen`: the collections whose
\* metadata was obtained, the others get the fallback entry
OfferAnswer(seen, fetch) ==
  /\ metadataFetch' = fetch
  /\ offerResponse' =
       [status |-> 200, success |-> TRUE,
        offer |-> [discountApplicable |-> TRUE,
                   segmentName |-> SegmentNameFor(customerTags, bestPlan.targetKey),
                   planName |-> bestPlan.name,
                   collections |-> CollectionsWith(collectionIds, ruleMap, seen),
                   highestDiscountRate |-> bestPlanMaxPercent]]
  /\ opc' = "done"

\* `await authenticate.admin(request)` returned or threw, lines 246-253; with an
\* admin session admin.graphql is called (281), with a store URL only one
\* fetch per collection is started (303-342), with neither the fallback
\* entries are answered (396-411)
OfferAuthenticate ==
  /\ opc = "collections"
  /\ \E session \in BOOLEAN :
       IF session
       THEN /\ opc' = "adminGraphql"
            /\ UNCHANGED <<metadataFetch, metadataCalls, offerResponse>>
       ELSE IF offerRequest.storeUrl
       THEN /\ opc' = "storeFetch"
            /\ metadataCalls' = [c \in Range(collectionIds) |-> "fetch"]
            /\ UNCHANGED <<metadataFetch, offerResponse>>
       ELSE /\ OfferAnswer({}, "noAccess")
            /\ UNCHANGED metadataCalls
  /\ UNCHANGED <<normalizer, draft, admins, orderVars, plans, offerRequest, customerTags, discountPlans, strategiesRun,
                 bestPlan, bestPlanMaxPercent, ruleMap, collectionIds>>

\* `await admin.graphql(query, ...)` returned or threw, lines 281-285; a throw
\* ends in the catch of lines 413-431
OfferAdminGraphql ==
  /\ opc = "adminGraphql"
  /\ \E failed \in BOOLEAN :
       IF failed
       THEN OfferAnswer({}, "failed")
       ELSE /\ opc' = "adminJson"
            /\ UNCHANGED <<metadataFetch, offerResponse>>
  /\ UNCHANGED <<normalizer, draft, admins, orderVars, plans, offerRequest, customerTags, discountPlans, strategiesRun,
                 bestPlan, bestPlanMaxPercent, ruleMap, collectionIds, metadataCalls>>

\* `await response.json()` of the admin answer returned with the nodes of the
\* `known` ids, or it threw or carried no data (catch), lines 365-395
OfferAdminJson ==
  /\ opc = "adminJson"
  /\ \E failed \in BOOLEAN, known \in SUBSET Range(collectionIds) :
       IF failed THEN OfferAnswer({}, "failed") ELSE OfferAnswer(known, "ok")
  /\ UNCHANGED <<normalizer, draft, admins, orderVars, plans, offerRequest, customerTags, discountPlans, strategiesRun,
                 bestPlan, bestPlanMaxPercent, ruleMap, collectionIds, metadataCalls>>

\* a call of the store path moved on; when the last one has ended Promise.all
\* resolves (line 342) and the handler goes on to `await response.json()`
StoreCallMoves(c, to) ==
  LET calls == [metadataCalls EXCEPT ![c] = to]
  IN /\ metadataCalls' = calls
     /\ opc' = IF \A d \in DOMAIN calls : calls[d] \in {"found", "missing", "failed"}
               THEN "storeJson" ELSE "storeFetch"

\* `await fetch(`${storeUrl}/collections.json`)` of collection c returned or
\* threw, lines 303 and 327-329
OfferStoreFetch(c) ==
  /\ opc = "storeFetch"
  /\ c \in DOMAIN metadataCalls
  /\ metadataCalls[c] = "fetch"
  /\ \E failed \in BOOLEAN : StoreCallMoves(c, IF failed THEN "failed" ELSE "json")
  /\ UNCHANGED <<normalizer, draft, admins, orderVars, plans, offerRequest, customerTags, discountPlans, strategiesRun,
                 bestPlan, bestPlanMaxPercent, ruleMap, collectionIds, metadataFetch, offerResponse>>

\* `await collectionResponse.json()` of collection c returned a listing with
\* or without the collection, or threw, lines 304-329
OfferStoreParse(c) ==
  /\ opc = "storeFetch"
  /\ c \in DOMAIN metadataCalls
  /\ metadataCalls[c] = "json"
  /\ \E to \in {"found", "missing", "failed"} : StoreCallMoves(c, to)
  /\ UNCHANGED <<normalizer, draft, admins, orderVars, plans, offerRequest, customerTags, discountPlans, strategiesRun,
                 bestPlan, bestPlanMaxPercent, ruleMap, collectionIds, metadataFetch, offerResponse>>

\* `await response.json()` of the answer assembled from the store calls,
\* lines 345-395
OfferStoreJson ==
  /\ opc = "storeJson"
  /\ LET with(st) == { c \in DOMAIN metadataCalls : metadataCalls[c] = st }
     IN OfferAnswer(with("found"),
                    IF with("failed") = DOMAIN metadataCalls THEN "failed"
                    ELSE IF with("failed") # {} THEN "partial" ELSE "ok")
  /\ UNCHANGED <<normalizer, draft, admins, orderVars, plans, offerRequest, customerTags, discountPlans, strategiesRun,
                 bestPlan, bestPlanMaxPercent, ruleMap, collectionIds, metadataCalls>>

OfferNext ==
  \/ OfferReceive
  \/ OfferStrategy1
  \/ OfferStrategy2
  \/ OfferStrategy3
  \/ OfferStrategy4
  \/ OfferStrategy5
  \/ OfferAuthenticate
  \/ OfferAdminGraphql
  \/ OfferAdminJson
  \/ \E c \in Categories : OfferStoreFetch(c)
  \/ \E c \in Categories : OfferStoreParse(c)
  \/ OfferStoreJson

----------------------------------------------------------------------------
(* Order routes: inputs                                                    *)

MaxLines == 2        \* most cart lines of a request
MaxOrderRules == 2   \* longest rule list of the plan applied to a cart

Product1 == "gid://shopify/Product/1"
Product2 == "gid://shopify/Product/2"
Variant11 == "gid://shopify/ProductVariant/11"
Variant12 == "gid://shopify/ProductVariant/12"
Variant21 == "gid://shopify/ProductVariant/21"

\* formatProductId(item.product_id) for a numeric product_id (check route, line 70)
\* and `gid://shopify/Product/${item.product_id}` (create-real route, line 47)
formatProductId(n) ==
  CASE n = 1 -> Product1
    [] n = 2 -> Product2
    [] OTHER -> "gid://shopify/Product/"

\* formatVariantId(item.variant_id) for a numeric variant_id (check route, line 73)
formatVariantId(n) ==
  CASE n = 11 -> Variant11
    [] n = 12 -> Variant12
    [] n = 21 -> Variant21
    [] OTHER -> "gid://shopify/ProductVariant/"

Customer7 == "gid://shopify/Customer/7"

\* formatCustomerId(customerId), lines 575-583
formatCustomerId(id) ==
  CASE id = Customer7 -> Customer7
    [] id = "7" -> Customer7
    [] OTHER -> "gid://shopify/Customer/"

\* cart lines in the array format: used as received
ArrayItems ==
  [productId : {Product1}, variantId : {Variant11}, price : {100}, quantity : {1, 2}]
  \cup [productId : {Product1}, variantId : {Variant12}, price : {100}, quantity : {1}]
  \cup [productId : {Product2}, variantId : {Variant21}, price : {0, 100}, quantity : {1}]

\* stands for the `undefined` of a cart line that has no variant_id
NoVariantId == 0

\* cart lines of a storefront cart object: numeric ids, price in cents
ObjectItems ==
  [product_id : {1}, variant_id : {11}, price : {10000}, quantity : {0, 2}]
  \cup [product_id : {2}, variant_id : {21}, price : {20000}, quantity : {1}]
  \cup [product_id : {1}, variant_id : {NoVariantId}, price : {10000}, quantity : {1}]

\* rules of the plan applied to the cart
OrderPercents == {0, 15, 20}
OrderRules == [categoryId : Categories, percentOff : OrderPercents]

\* Catalog truth: the collections each product belongs to
Membership == { <<Product1, Collection1>>, <<Product1, Collection2>>, <<Product2, Collection2>> }

SegmentVipId == SegmentGid(<<"1">>)
SegmentGoldId == SegmentGid(<<"2">>)
SegmentVip == [id |-> SegmentVipId, name |-> sVIP]
SegmentGold == [id |-> SegmentGoldId, name |-> sGold]

\* segment catalogs the Catalog/Customer Service may return
SegmentCatalogs ==
  { << >>, <<SegmentGold>>, <<SegmentVip, SegmentGold>>, <<SegmentGold, SegmentVip>> }

\* one plan stored under the VIP segment's id, any rule list
CalculatorStores ==
  { MkStore(<<[targetType |-> "segment", targetKey |-> SegmentVipId, rules |-> rs]>>) :
      rs \in SeqsUpTo(OrderRules, MaxOrderRules) }

\* plans stored under a segment's id or under its name, with or without rules
MatchingStores ==
  { MkStore(bs) :
      bs \in SeqsUpTo([targetType : {"segment"},
                       targetKey : {SegmentVipId, sVIP, SegmentGoldId},
                       rules : { << >>, <<[categoryId |-> Collection1, percentOff |-> 15]>> }],
                      MaxKeyPlans) }

OrderCartKinds == {"array", "object", "objectNoItems", "scalar", "missing"}

----------------------------------------------------------------------------
(* Order routes: state                                                     *)

NoSegment == [id |-> << >>, name |-> << >>]
NoSinkResult == [outcome |-> "none"]
NoRule == [categoryId |-> ""]

OrderInit ==
  /\ pc = "received"
  /\ trace = <<"RECEIVED">>
  /\ processedCartItems = << >>
  /\ matchedSegment = NoSegment
  /\ discountPlan = NoPlan
  /\ lineIx = 0
  /\ ruleIx = 0
  /\ bestPercentOff = 0
  /\ bestDiscount = NoRule
  /\ applicableDiscounts = << >>
  /\ linePercents = << >>
  /\ totalOriginalPrice = 0
  /\ totalDiscountAmount = 0
  /\ memberCalls = << >>
  /\ reports = << >>
  /\ failedCalls = {}
  /\ fetchCalls = << >>
  /\ fetchResults = << >>
  /\ sinkCalls = << >>
  /\ sinkResult = NoSinkResult
  /\ orderResponse = NoResponse

----------------------------------------------------------------------------
(* Order routes: api.check-segment-discount.tsx ("check") and              *)
(* api.create-real-draft-order.tsx = unnamed/part_018 ("real")             *)

IsCheck == orderRequest.route = "check"

\* cartItems.items.map(...): check route lines 69-77, create-real route lines 46-54
ConvertItem(route, item) ==
  [productId |-> formatProductId(item.product_id),
   variantId |-> IF route = "check" THEN formatVariantId(item.variant_id) ELSE item.variant_id,
   price |-> item.price \div 100,
   quantity |-> IF item.quantity = 0 THEN 1 ELSE item.quantity]

\* formatVariantId(undefined) is a TypeError (`variantId.toString()`, line 570);
\* the create-real route copies item.variant_id without a call
ConvertThrows(route, item) == route = "check" /\ item.variant_id = NoVariantId

\* cart format handling: check route lines 61-94, create-real route lines 40-62
\* `threw`: the conversion ended in the `catch` of lines 95-102
ProcessCart(req) ==
  CASE req.cartKind = "array" -> [ok |-> TRUE, threw |-> FALSE, items |-> req.items]
    [] req.cartKind = "object" ->
         IF \E i \in 1..Len(req.items) : ConvertThrows(req.route, req.items[i])
         THEN [ok |-> FALSE, threw |-> TRUE, items |-> << >>]
         ELSE [ok |-> TRUE, threw |-> FALSE,
               items |-> [i \in 1..Len(req.items) |-> ConvertItem(req.route, req.items[i])]]
    [] req.cartKind = "objectNoItems" -> [ok |-> FALSE, threw |-> FALSE, items |-> << >>]
    [] OTHER -> [ok |-> req.route = "real", threw |-> FALSE, items |-> << >>]

\* if (!shop || !customerId || !cartItems)
MissingFields(req) == ~req.shop \/ req.customerId = "" \/ req.cartKind = "missing"

ItemTotal(item) == item.price * item.quantity

\* percentOff.toString()
PercentToString(n) ==
  CASE n = 15 -> "15"
    [] n = 20 -> "20"
    [] n = 150 -> "150"
    [] OTHER -> "0"

\* applicableDiscounts.find(d => d.productId === item.productId)   (check, line 365)
\* applicableDiscounts.find(d => d.variantId === item.variantId)   (create-real, line 158)
FindDiscount(route, discounts, item) ==
  LET hit(i) == IF route = "check" THEN discounts[i].productId = item.productId
                ELSE discounts[i].variantId = item.variantId
      hits == { i \in 1..Len(discounts) : hit(i) }
  IN IF hits = {} THEN [percentOff |-> 0]
     ELSE discounts[CHOOSE i \in hits : \A j \in hits : i <= j]

\* one entry of lineItems: check lines 364-383, create-real lines 157-176
LineItem(route, discounts, item) ==
  LET d == FindDiscount(route, discounts, item)
  IN IF d.percentOff > 0
     THEN [variantId |-> item.variantId, quantity |-> item.quantity,
           appliedDiscount |->
             [value |-> IF route = "check" THEN d.percentOff ELSE PercentToString(d.percentOff),
              valueType |-> "PERCENTAGE", title |-> "Segment Discount"]]
     ELSE [variantId |-> item.variantId, quantity |-> item.quantity]

\* variables.input of the draftOrderCreate mutation: check lines 431-436, create-real lines 203-210
SinkPayload(req, items, discounts) ==
  [customerId |-> IF req.route = "check" THEN formatCustomerId(req.customerId) ELSE req.customerId,
   lineItems |-> [i \in 1..Len(items) |-> LineItem(req.route, discounts, items[i])]]

GCD(a, b) == CHOOSE g \in 1..(IF a > b THEN a ELSE b) :
               /\ a % g = 0 /\ b % g = 0
               /\ \A h \in (g + 1)..(IF a > b THEN a ELSE b) : ~(a % h = 0 /\ b % h = 0)

\* the exact quotient n / d as a fraction in lowest terms
Ratio(n, d) ==
  IF n = 0 THEN [num |-> 0, den |-> 1]
  ELSE [num |-> n \div GCD(n, d), den |-> d \div GCD(n, d)]

\* totalOriginalPrice > 0 ? (totalDiscountAmount / totalOriginalPrice) * 100 : 0
SavingsPercentage(discountTotal, originalTotal) ==
  IF originalTotal > 0 THEN Ratio(discountTotal * 100, originalTotal)
  ELSE [num |-> 0, den |-> 1]

\* the totals carried by a response
Totals(plan, segment, original, discount, discounts) ==
  [segment |-> segment.name, planName |-> IF plan = NoPlan THEN "null" ELSE plan.name,
   totalOriginalPrice |-> original, totalDiscountAmount |-> discount,
   totalDiscountedPrice |-> original - discount,
   savingsPercentage |-> SavingsPercentage(discount, original),
   applicableDiscounts |-> discounts]

\* userErrors { field message } entries the draftOrderCreate payload may carry
UserErrorVariant == [field |-> "lineItems", message |-> "Variant is invalid"]
UserErrorCustomer == [field |-> "customerId", message |-> "Customer not found"]

\* non-empty userErrors lists, in the order the Sink gave them
SinkUserErrorLists ==
  { <<UserErrorVariant>>, <<UserErrorVariant, UserErrorCustomer>>,
    <<UserErrorCustomer, UserErrorVariant>> }

\* errors of a GraphQL answer that carries no payload
SinkGraphqlErrors == <<[message |-> "Throttled"]>>

\* answers of the draftOrderCreate call: a payload with a draft order, a
\* payload with userErrors and no draft order, a payload with neither, an
\* answer with top-level errors and no payload, an answer with top-level
\* errors next to a payload with a draft order or with userErrors, a body
\* that is not JSON, no answer at all
SinkResults ==
  { [outcome |-> o, userErrors |-> << >>] :
      o \in {"ok", "unreachable", "badJson", "graphqlErrors", "noDraftOrder",
             "errorsAndOrder"} }
  \cup { [outcome |-> o, userErrors |-> l] :
           o \in {"userErrors", "errorsAndUserErrors"}, l \in SinkUserErrorLists }

\* the answer carries a non-empty top-level `errors` array
HasTopLevelErrors(result) ==
  result.outcome \in {"graphqlErrors", "errorsAndOrder", "errorsAndUserErrors"}

\* data.draftOrderCreate.userErrors of the answer is not empty
HasUserErrors(result) == result.outcome \in {"userErrors", "errorsAndUserErrors"}

\* data.draftOrderCreate.draftOrder of the answer is set
HasDraftOrder(result) == result.outcome \in {"ok", "errorsAndOrder"}

\* `details` of createDraftOrder's failures, returned as graphqlErrors by the
\* check route (lines 311-317): the response text that is not JSON (:462-468),
\* the whole parsed answer without a draft order (:519-525), the caught Error
\* object, which JSON-serialises to {} (:527-533)
SinkRawBody == "<html>Bad Gateway</html>"
SinkEmptyPayload ==
  [data |-> [draftOrderCreate |-> [draftOrder |-> "null", userErrors |-> << >>]]]
SinkErrorObject == "{}"

\* a formatting that keeps only the first error
FormatUserErrorsFirst(userErrors) == SubSeq(userErrors, 1, 1)

\* userErrors.map(err => ({ field: err.field, message: err.message }))
FormatUserErrors(userErrors) ==
  [i \in 1..Len(userErrors) |->
     [field |-> userErrors[i].field, message |-> userErrors[i].message]]

orderCalc == <<lineIx, ruleIx, bestPercentOff, bestDiscount, applicableDiscounts,
               linePercents, totalOriginalPrice, totalDiscountAmount, memberCalls, reports>>

\* the request ends with `resp` after passing through `stages`
RespondVia(stages, resp) ==
  /\ pc' = "done"
  /\ trace' = trace \o stages
  /\ orderResponse' = resp

\* the request ends with `resp`; `stage` is the terminal stage it ends in
Respond(stage, resp) == RespondVia(<<stage>>, resp)

\* a submission that is sent a second time
SubmitTwice(stages, discounts) ==
  /\ pc' = "sink"
  /\ trace' = trace \o stages \o <<"ORDER_SUBMITTED">>
  /\ sinkCalls' = sinkCalls \o <<SinkPayload(orderRequest, processedCartItems, discounts),
                                 SinkPayload(orderRequest, processedCartItems, discounts)>>
  /\ orderResponse' = orderResponse

\* a route that submits whatever was computed
SubmitsOrderAlways(route, discounts) == TRUE

\* check line 272: if (applicableDiscounts.length > 0); the create-real route
\* reaches its draftOrderCreate call unconditionally (line 153)
SubmitsOrder(route, discounts) == route = "real" \/ Len(discounts) > 0

\* the draftOrderCreate call is issued with the line set built from `discounts`
Submit(stages, discounts) ==
  /\ pc' = "sink"
  /\ trace' = trace \o stages \o <<"ORDER_SUBMITTED">>
  /\ sinkCalls' = Append(sinkCalls, SinkPayload(orderRequest, processedCartItems, discounts))
  /\ orderResponse' = orderResponse

\* request body validation: check lines 31-116, create-real lines 10-21
OrderReceive ==
  /\ pc = "received"
  /\ orderRequest.route # "none"
  /\ IF MissingFields(orderRequest)
     THEN /\ Respond("FAILED", [status |-> 400, error |-> "Missing required fields"])
          /\ UNCHANGED processedCartItems
     ELSE IF IsCheck
     THEN LET cart == ProcessCart(orderRequest)
          IN IF cart.threw
             THEN /\ Respond("FAILED", [status |-> 500, error |-> "Failed to process cart items"])
                  /\ UNCHANGED processedCartItems
             ELSE IF ~cart.ok
             THEN /\ Respond("FAILED", [status |-> 400, error |-> "Invalid cart format"])
                  /\ UNCHANGED processedCartItems
             ELSE IF Len(cart.items) = 0
             THEN /\ Respond("FAILED", [status |-> 400, error |-> "No items found in cart"])
                  /\ UNCHANGED processedCartItems
             ELSE /\ processedCartItems' = cart.items
                  /\ pc' = "session"
                  /\ trace' = Append(trace, "VALIDATED")
                  /\ UNCHANGED orderResponse
     ELSE /\ pc' = "session"
          /\ UNCHANGED <<trace, processedCartItems, orderResponse>>
  /\ UNCHANGED <<normalizer, draft, admins, offerVars, plans, orderRequest, world, fetchResults, sinkResult, failedCalls, matchedSegment, discountPlan, orderCalc,
                 fetchCalls, sinkCalls>>

\* prisma.session.findFirst: check lines 119-133; create-real lines 24-62, where
\* the cart format is handled after the session was found
OrderSession ==
  /\ pc = "session"
  /\ \E found \in BOOLEAN :
       IF ~found
       THEN /\ Respond("FAILED", [status |-> 401, error |-> "No session found for this shop"])
            /\ UNCHANGED <<processedCartItems, fetchCalls>>
       ELSE IF IsCheck
       THEN /\ pc' = "customer"
            /\ fetchCalls' = Append(fetchCalls, "customer")
            /\ UNCHANGED <<trace, processedCartItems, orderResponse>>
       ELSE LET cart == ProcessCart(orderRequest)
            IN IF ~cart.ok
               THEN /\ Respond("FAILED", [status |-> 400, error |-> "Invalid cart format"])
                    /\ UNCHANGED <<processedCartItems, fetchCalls>>
               ELSE /\ processedCartItems' = cart.items
                    /\ pc' = "customer"
                    /\ trace' = Append(trace, "VALIDATED")
                    /\ fetchCalls' = Append(fetchCalls, "customer")
                    /\ UNCHANGED orderResponse
  /\ UNCHANGED <<normalizer, draft, admins, offerVars, plans, orderRequest, world, fetchResults, sinkResult, failedCalls, matchedSegment, discountPlan, orderCalc, sinkCalls>>

\* fetchCustomerData returns null on GraphQL errors and from its catch (check
\* lines 612-621, create-real lines 328-337); the handler answers 404 (check
\* lines 138-146, create-real lines 67-74)
CustomerNotFound == Respond("FAILED", [status |-> 404, error |-> "Customer not found"])

\* fetchCustomerData, `await fetch(...)` settled (check line 590, create-real
\* line 306): rejected, or a Response whose body is still to be read
OrderCustomerFetch ==
  /\ pc = "customer"
  /\ \E rejected \in BOOLEAN :
       IF rejected
       THEN /\ fetchResults' = Append(fetchResults, "unreachable")
            /\ CustomerNotFound
       ELSE /\ pc' = "customerBody"
            /\ UNCHANGED <<fetchResults, trace, orderResponse>>
  /\ UNCHANGED <<normalizer, draft, admins, offerVars, plans, orderRequest, world, sinkResult, failedCalls, processedCartItems, matchedSegment,
                 discountPlan, orderCalc, fetchCalls, sinkCalls>>

\* fetchCustomerData, `await response.json()` settled and the function
\* returned: check lines 610-621 and 136-148, create-real lines 326-337 and 65-76
OrderCustomerResult ==
  /\ pc = "customerBody"
  /\ \E outcome \in {"ok", "notFound", "errors", "badJson"} :
       /\ fetchResults' = Append(fetchResults, outcome)
       /\ IF outcome # "ok"
          THEN /\ CustomerNotFound
               /\ UNCHANGED fetchCalls
          ELSE /\ pc' = "segments"
               /\ fetchCalls' = Append(fetchCalls, "segments")
               /\ UNCHANGED <<trace, orderResponse>>
  /\ UNCHANGED <<normalizer, draft, admins, offerVars, plans, orderRequest, world, sinkResult, failedCalls, processedCartItems, matchedSegment,
                 discountPlan, orderCalc, sinkCalls>>

\* a match that takes the first segment of the catalog
MatchSegmentFirst(segments, tags) ==
  IF Len(segments) = 0 THEN NoSegment ELSE segments[1]

\* segments.find(segment => customerData.tags.includes(segment.name))
MatchSegment(segments, tags) ==
  LET hits == { i \in 1..Len(segments) : segments[i].name \in Range(tags) }
  IN IF hits = {} THEN NoSegment
     ELSE segments[CHOOSE i \in hits : \A j \in hits : i <= j]

\* fetchSegments returns null on GraphQL errors and from its catch (check lines
\* 651-660, create-real lines 367-376); the handler answers 500 (check lines
\* 150-157, create-real lines 78-82)
SegmentsFailed == Respond("FAILED", [status |-> 500, error |-> "Failed to fetch segments"])

\* fetchSegments, `await fetch(...)` settled (check line 627, create-real line
\* 343): rejected, or a Response whose body is still to be read
OrderSegmentsFetch ==
  /\ pc = "segments"
  /\ \E rejected \in BOOLEAN :
       IF rejected
       THEN /\ fetchResults' = Append(fetchResults, "unreachable")
            /\ SegmentsFailed
       ELSE /\ pc' = "segmentsBody"
            /\ UNCHANGED <<fetchResults, trace, orderResponse>>
  /\ UNCHANGED <<normalizer, draft, admins, offerVars, plans, orderRequest, world, sinkResult, failedCalls, processedCartItems, matchedSegment,
                 discountPlan, orderCalc, fetchCalls, sinkCalls>>

\* fetchSegments, `await response.json()` settled, the function returned and
\* the segment is matched: check lines 649-660 and 148-181, create-real lines
\* 365-376 and 76-98
OrderSegmentsResult ==
  /\ pc = "segmentsBody"
  /\ \E outcome \in {"ok", "errors", "badJson"} :
       /\ fetchResults' = Append(fetchResults, outcome)
       /\ LET seg == MatchSegment(world.segments, world.tags)
          IN IF outcome # "ok"
             THEN /\ SegmentsFailed
                  /\ UNCHANGED <<matchedSegment, sinkCalls>>
             ELSE /\ matchedSegment' = seg
                  /\ IF seg # NoSegment
                     THEN /\ pc' = "planById"
                          /\ trace' = Append(trace, "SEGMENT_MATCHED")
                          /\ UNCHANGED <<orderResponse, sinkCalls>>
                     ELSE IF IsCheck
                     THEN /\ Respond("NO_MATCH",
                               [status |-> 200, discountApplicable |-> FALSE,
                                message |-> "Customer does not belong to any segment with discount plans"])
                          /\ UNCHANGED sinkCalls
                     ELSE Submit(<<"NO_MATCH">>, << >>)
  /\ UNCHANGED <<normalizer, draft, admins, offerVars, plans, orderRequest, world, sinkResult, failedCalls, processedCartItems, discountPlan, orderCalc,
                 fetchCalls>>

\* the code that follows the plan lookup: check lines 201-245, create-real lines 106-123
AfterPlanLookup(plan) ==
  /\ discountPlan' = plan
  /\ IF plan = NoPlan \/ Len(plan.rules) = 0
     THEN /\ IF IsCheck
             THEN /\ pc' = "allPlans"
                  /\ UNCHANGED <<trace, orderResponse, sinkCalls>>
             ELSE Submit(<<"NO_PLAN">>, << >>)
          /\ UNCHANGED orderCalc
     ELSE IF Len(processedCartItems) = 0
     THEN /\ Submit(<<"PLAN_SELECTED", "DISCOUNTS_COMPUTED">>, << >>)
          /\ UNCHANGED orderCalc
     ELSE /\ pc' = "membership"
          /\ trace' = Append(trace, "PLAN_SELECTED")
          /\ lineIx' = 1
          /\ ruleIx' = 1
          /\ bestPercentOff' = 0
          /\ bestDiscount' = NoRule
          /\ totalOriginalPrice' = totalOriginalPrice + ItemTotal(processedCartItems[1])
          /\ memberCalls' = Append(memberCalls, <<1, 1>>)
          /\ reports' = <<<< >>>>
          /\ UNCHANGED <<applicableDiscounts, linePercents, totalDiscountAmount,
                         orderResponse, sinkCalls>>

\* prisma.discountPlan.findFirst by the segment's id: check lines 181-199,
\* create-real lines 98-106
OrderPlanById ==
  /\ pc = "planById"
  /\ LET plan == FindFirstByKey(plans, matchedSegment.id)
     IN IF plan = NoPlan /\ IsCheck
        THEN /\ pc' = "planByName"
             /\ UNCHANGED <<trace, discountPlan, orderCalc, sinkCalls, orderResponse>>
        ELSE AfterPlanLookup(plan)
  /\ UNCHANGED <<normalizer, draft, admins, offerVars, plans, orderRequest, world, fetchResults, sinkResult, failedCalls, processedCartItems, matchedSegment, fetchCalls>>

\* prisma.discountPlan.findFirst by the segment's name: check lines 190-199
OrderPlanByName ==
  /\ pc = "planByName"
  /\ AfterPlanLookup(FindFirstByKey(plans, matchedSegment.name))
  /\ UNCHANGED <<normalizer, draft, admins, offerVars, plans, orderRequest, world, fetchResults, sinkResult, failedCalls, processedCartItems, matchedSegment, fetchCalls>>

\* prisma.discountPlan.findMany of the segment plans, read for the debug part
\* of the answer, returned: check lines 201-222; a rejected read ends in the
\* handler's catch, lines 338-345
OrderAllPlans ==
  /\ pc = "allPlans"
  /\ \E rejected \in BOOLEAN :
       IF rejected
       THEN Respond("FAILED", [status |-> 500,
                               error |-> "Internal error while checking segment discount"])
       ELSE Respond("NO_PLAN",
                    [status |-> 200, discountApplicable |-> FALSE,
                     message |-> "No discount plan found for this segment"])
  /\ UNCHANGED <<normalizer, draft, admins, offerVars, plans, orderRequest, world, fetchResults, sinkResult,
                 failedCalls, processedCartItems, matchedSegment, discountPlan, orderCalc,
                 fetchCalls, sinkCalls>>

\* a comparison that lets an equal percentage replace the rule found first
BetterRuleOrEqual(belongs, rule, best) == belongs /\ rule.percentOff >= best

\* if (productBelongsToCollection && rule.percentOff > bestPercentOff)
BetterRule(belongs, rule, best) == belongs /\ rule.percentOff > best

\* a discount that is not divided by 100
DiscountAmountUnscaled(itemTotalPrice, percentOff) == itemTotalPrice * percentOff

\* (itemTotalPrice * bestPercentOff) / 100
DiscountAmount(itemTotalPrice, percentOff) == (itemTotalPrice * percentOff) \div 100

\* applicableDiscounts.push({...}): check lines 260-267, create-real lines 138-147
DiscountRecord(route, item, rule, percentOff) ==
  LET base == [productId |-> item.productId, collectionId |-> rule.categoryId,
               percentOff |-> percentOff, originalPrice |-> ItemTotal(item),
               discountedPrice |-> ItemTotal(item) - DiscountAmount(ItemTotal(item), percentOff),
               discountAmount |-> DiscountAmount(ItemTotal(item), percentOff)]
  IN IF route = "check" THEN base
     ELSE [productId |-> base.productId, variantId |-> item.variantId,
           collectionId |-> base.collectionId, percentOff |-> base.percentOff,
           originalPrice |-> base.originalPrice, discountedPrice |-> base.discountedPrice,
           discountAmount |-> base.discountAmount, quantity |-> item.quantity]

\* a check that takes a failed call for a membership
checkProductInCollectionOptimistic(failed, productId, collectionId) ==
  failed \/ <<productId, collectionId>> \in Membership

\* checkProductInCollection: `return false` on GraphQL errors and in the catch,
\* productCollections.includes(collectionId) otherwise
checkProductInCollection(failed, productId, collectionId) ==
  ~failed /\ <<productId, collectionId>> \in Membership

\* checkProductInCollection returned for (line, rule) and the loops go on:
\* check lines 243-337, create-real lines 121-225.  A failed call returns
\* false (check lines 695-705, create-real lines 411-421).
MembershipReturned(failed) ==
  /\ failedCalls' = IF failed THEN failedCalls \cup {<<lineIx, ruleIx>>}
                              ELSE failedCalls
  /\ LET item == processedCartItems[lineIx]
         rule == discountPlan.rules[ruleIx]
         belongs == checkProductInCollection(failed, item.productId, rule.categoryId)
         better == BetterRule(belongs, rule, bestPercentOff)
         best == IF better THEN rule.percentOff ELSE bestPercentOff
         bestRule == IF better THEN rule ELSE bestDiscount
         reported == [reports EXCEPT ![lineIx] = Append(@, belongs)]
         discounts == IF bestRule # NoRule
                      THEN Append(applicableDiscounts,
                                  DiscountRecord(orderRequest.route, item, bestRule, best))
                      ELSE applicableDiscounts
         discountTotal == IF bestRule # NoRule
                          THEN totalDiscountAmount + DiscountAmount(ItemTotal(item), best)
                          ELSE totalDiscountAmount
     IN IF ruleIx < Len(discountPlan.rules)
        THEN \* next rule of the same line
             /\ ruleIx' = ruleIx + 1
             /\ bestPercentOff' = best
             /\ bestDiscount' = bestRule
             /\ reports' = reported
             /\ memberCalls' = Append(memberCalls, <<lineIx, ruleIx + 1>>)
             /\ pc' = "membership"
             /\ UNCHANGED <<trace, lineIx, applicableDiscounts, linePercents,
                            totalOriginalPrice, totalDiscountAmount, sinkCalls, orderResponse>>
        ELSE \* the line is finished
             /\ applicableDiscounts' = discounts
             /\ totalDiscountAmount' = discountTotal
             /\ linePercents' = Append(linePercents, IF bestRule # NoRule THEN best ELSE 0)
             /\ IF lineIx < Len(processedCartItems)
                THEN /\ lineIx' = lineIx + 1
                     /\ ruleIx' = 1
                     /\ bestPercentOff' = 0
                     /\ bestDiscount' = NoRule
                     /\ totalOriginalPrice' =
                          totalOriginalPrice + ItemTotal(processedCartItems[lineIx + 1])
                     /\ reports' = Append(reported, << >>)
                     /\ memberCalls' = Append(memberCalls, <<lineIx + 1, 1>>)
                     /\ pc' = "membership"
                     /\ UNCHANGED <<trace, sinkCalls, orderResponse>>
                ELSE /\ bestPercentOff' = best
                     /\ bestDiscount' = bestRule
                     /\ reports' = reported
                     /\ UNCHANGED <<lineIx, ruleIx, totalOriginalPrice, memberCalls>>
                     /\ IF ~SubmitsOrder(orderRequest.route, discounts)
                        THEN /\ RespondVia(<<"DISCOUNTS_COMPUTED", "NO_DISCOUNT">>,
                                  [status |-> 200, discountApplicable |-> FALSE] @@
                                  Totals(discountPlan, matchedSegment, totalOriginalPrice,
                                         discountTotal, discounts))
                             /\ UNCHANGED sinkCalls
                        ELSE Submit(<<"DISCOUNTS_COMPUTED">>, discounts)

\* checkProductInCollection, `await fetch(...)` settled (check line 668,
\* create-real line 384): rejected, which the catch turns into `false`, or a
\* Response whose body is still to be read
OrderMembershipFetch ==
  /\ pc = "membership"
  /\ \E rejected \in (IF world.oracleFails THEN BOOLEAN ELSE {FALSE}) :
       IF rejected
       THEN MembershipReturned(TRUE)
       ELSE /\ pc' = "membershipBody"
            /\ UNCHANGED <<failedCalls, trace, orderCalc, sinkCalls, orderResponse>>
  /\ UNCHANGED <<normalizer, draft, admins, offerVars, plans, orderRequest, world, fetchResults, sinkResult, processedCartItems, matchedSegment,
                 discountPlan, fetchCalls>>

\* checkProductInCollection, `await response.json()` settled (check line 693,
\* create-real line 409): GraphQL errors or a body that cannot be read give
\* `false`
OrderMembershipResult ==
  /\ pc = "membershipBody"
  /\ \E failed \in (IF world.oracleFails THEN BOOLEAN ELSE {FALSE}) : MembershipReturned(failed)
  /\ UNCHANGED <<normalizer, draft, admins, offerVars, plans, orderRequest, world, fetchResults, sinkResult, processedCartItems, matchedSegment,
                 discountPlan, fetchCalls>>

\* the draftOrderCreate call returned `result` and the handler answers: check
\* lines 453-534 and 278-318, create-real lines 227-298; createDraftOrder
\* looks at the top-level errors first (471), then at userErrors (481), then
\* at the draft order (498); the create-real route never reads the top-level
\* errors (230, 241)
SinkReturned(result) ==
  LET outcome == result.outcome
      totals == Totals(discountPlan, matchedSegment, totalOriginalPrice,
                       totalDiscountAmount, applicableDiscounts)
      failure(details, errors) ==
        [status |-> 500, success |-> FALSE,
         error |-> "Discount found but failed to create draft order",
         details |-> details, graphqlErrors |-> errors]
  IN /\ sinkResult' = result
     /\ IF HasDraftOrder(result) /\ ~(IsCheck /\ HasTopLevelErrors(result))
        THEN Respond("SUCCEEDED",
               [status |-> 200, success |-> TRUE, draftOrderUrl |-> "invoiceUrl",
                discountSummary |->
                  [discountApplicable |-> Len(applicableDiscounts) > 0] @@ totals])
        ELSE IF IsCheck
        THEN Respond("FAILED",
               CASE outcome = "unreachable" -> failure("fetch failed", SinkErrorObject)
                 [] outcome = "badJson" ->
                      failure("Invalid JSON response from Shopify", SinkRawBody)
                 [] HasTopLevelErrors(result) ->
                      failure("GraphQL errors occurred", SinkGraphqlErrors)
                 [] outcome = "userErrors" ->
                      failure("Shopify API validation errors",
                              FormatUserErrors(result.userErrors))
                 [] OTHER -> failure("No draft order returned from Shopify API", SinkEmptyPayload))
        ELSE Respond("FAILED",
               CASE HasUserErrors(result) ->
                      [status |-> 400, success |-> FALSE,
                       error |-> "Failed to create draft order",
                       details |-> result.userErrors]
                 [] outcome \in {"unreachable", "badJson"} ->
                      [status |-> 500, success |-> FALSE, error |-> "Failed to process order"]
                 [] OTHER ->
                      [status |-> 500, success |-> FALSE,
                       error |-> "No draft order returned from Shopify API"])

\* the fetch that no answer came to
SinkUnreachable == [outcome |-> "unreachable", userErrors |-> << >>]

\* draftOrderCreate, `await fetch(...)` settled (check line 441, create-real
\* line 215): rejected, or a Response whose body is still to be read
OrderSinkFetch ==
  /\ pc = "sink"
  /\ \E rejected \in BOOLEAN :
       IF rejected
       THEN SinkReturned(SinkUnreachable)
       ELSE /\ pc' = "sinkBody"
            /\ UNCHANGED <<sinkResult, trace, orderResponse>>
  /\ UNCHANGED <<normalizer, draft, admins, offerVars, plans, orderRequest, world, fetchResults, failedCalls, processedCartItems,
                 matchedSegment, discountPlan, orderCalc, fetchCalls, sinkCalls>>

\* draftOrderCreate, the body was read: `await response.text()` and JSON.parse
\* (check lines 453-466), `await response.json()` (create-real line 227)
OrderSinkResult ==
  /\ pc = "sinkBody"
  /\ \E result \in SinkResults \ {SinkUnreachable} : SinkReturned(result)
  /\ UNCHANGED <<normalizer, draft, admins, offerVars, plans, orderRequest, world, fetchResults, failedCalls, processedCartItems,
                 matchedSegment, discountPlan, orderCalc, fetchCalls, sinkCalls>>

OrderNext ==
  \/ OrderReceive
  \/ OrderSession
  \/ OrderCustomerFetch
  \/ OrderCustomerResult
  \/ OrderSegmentsFetch
  \/ OrderSegmentsResult
  \/ OrderPlanById
  \/ OrderPlanByName
  \/ OrderAllPlans
  \/ OrderMembershipFetch
  \/ OrderMembershipResult
  \/ OrderSinkFetch
  \/ OrderSinkResult

----------------------------------------------------------------------------
(* Admin routes: plan create and delete (app/routes/app._index.tsx and its  *)
(* copy unnamed/part_023), plan                                            *)
(* update, rule add and delete, plan delete (unnamed/part_013,             *)
(* unnamed/part_014) and the repair script (fix-discount-plan.js), run by  *)
(* concurrent requests against the Plan Store; every awaited store call is *)
(* a step.                                                                 *)

MaxAdmins == 2   \* admin requests in flight together

Admins == 1..MaxAdmins

\* no admin request
NoAdmins == << >>

\* rules sent with a create or update form
FormRules == <<[categoryId |-> Collection1, percentOff |-> 10]>>

\* a create form with two rules
FormRulesTwo ==
  <<[categoryId |-> Collection1, percentOff |-> 10],
    [categoryId |-> Collection2, percentOff |-> 20]>>

\* `plan_${Date.now()}_${Math.random()...}`: an id no other plan has
NewPlanId(p) == 100 + p

\* the forms an admin request may carry; updates, deletes and rule changes
\* address plan 1, deleteRule the rule row 1; a delete may also address the
\* plan that the create of request 1 writes
AdminRequests ==
  [action : {"create"}, targetType : {"segment"}, targetKey : {sVip, sGold}, planId : {0},
   rules : {FormRules}, ruleId : {0}, percentOff : {""}]
  \cup [action : {"create"}, targetType : {"segment"}, targetKey : {sVip}, planId : {0},
        rules : {FormRulesTwo}, ruleId : {0}, percentOff : {""}]
  \cup [action : {"updatePlan013"}, targetType : {"segment"}, targetKey : {sVip, sGold},
        planId : {1}, rules : {FormRules}, ruleId : {0}, percentOff : {""}]
  \cup [action : {"updatePlan014"}, targetType : {"segment", "customer"}, targetKey : {sVip},
        planId : {1}, rules : {<< >>}, ruleId : {0}, percentOff : {""}]
  \cup [action : {"delete"}, targetType : {"segment"}, targetKey : {sVip},
        planId : {1, NewPlanId(1)}, rules : {<< >>}, ruleId : {0}, percentOff : {""}]
  \cup [action : {"deletePlan"}, targetType : {"segment"}, targetKey : {sVip},
        planId : {1}, rules : {<< >>}, ruleId : {0}, percentOff : {""}]
  \cup [action : {"addRule"}, targetType : {"segment"}, targetKey : {sVip}, planId : {1},
        rules : {<< >>}, ruleId : {0}, percentOff : {"10", "abc"}]
  \cup [action : {"deleteRule"}, targetType : {"segment"}, targetKey : {sVip}, planId : {1},
        rules : {<< >>}, ruleId : {1}, percentOff : {""}]
  \cup [action : {"fixDiscountPlan"}, targetType : {"segment"}, targetKey : {sVipCap},
        planId : {0}, rules : {<< >>}, ruleId : {0}, percentOff : {""}]

\* the forms posted to the copy of the index route kept in unnamed/part_023,
\* whose action (110-178) makes the same store calls with no try/catch, next
\* to a create and a delete of the index route
CopyRequests ==
  [action : {"create023"}, targetType : {"segment"}, targetKey : {sVip, sGold}, planId : {0},
   rules : {FormRules}, ruleId : {0}, percentOff : {""}]
  \cup [action : {"delete023"}, targetType : {"segment"}, targetKey : {sVip},
        planId : {1, NewPlanId(1)}, rules : {<< >>}, ruleId : {0}, percentOff : {""}]
  \cup [action : {"create"}, targetType : {"segment"}, targetKey : {sVip}, planId : {0},
        rules : {FormRules}, ruleId : {0}, percentOff : {""}]
  \cup [action : {"delete"}, targetType : {"segment"}, targetKey : {sVip},
        planId : {NewPlanId(1)}, rules : {<< >>}, ruleId : {0}, percentOff : {""}]

\* the rule row the stored plans start with
StoredRules == <<[id |-> 1, categoryId |-> Collection1, percentOff |-> 10]>>

\* Plan Store contents the admin requests start from: at most one plan per segment
AdminStores ==
  { << >>,
    MkStore(<<[targetType |-> "segment", targetKey |-> sGold, rules |-> StoredRules]>>),
    MkStore(<<[targetType |-> "customer", targetKey |-> sVip, rules |-> StoredRules]>>),
    <<[id |-> 1, name |-> "New Vip", targetType |-> "segment", targetKey |-> SegmentVipId,
       rules |-> StoredRules],
      [id |-> 2, name |-> PlanNames[2], targetType |-> "segment", targetKey |-> sVipCap,
       rules |-> << >>]>> }

\* `rule_${Date.now()}_${Math.random()...}`: an id no other rule row has
NewRuleId(p, k) == 10 * p + k

\* the rule rows of a form, as request p writes them
RuleRow(p, rules, k) ==
  [id |-> NewRuleId(p, k), categoryId |-> rules[k].categoryId,
   percentOff |-> rules[k].percentOff]

\* isNaN(parseFloat(text)) for the texts of the addRule forms
ParseFloatIsNaN(text) == text \notin {"10"}

\* prisma.discountPlan.findFirst({where: {targetType: "segment", targetKey, id: {not: planId}}})
ExistsOtherSegmentPlan(store, targetKey, planId) ==
  \E i \in 1..Len(store) :
    /\ store[i].targetType = "segment"
    /\ store[i].targetKey = targetKey
    /\ store[i].id # planId

\* the duplicate check of the create and update actions; create and the
\* part_014 update make it only `if (targetType === "segment")`
DuplicateCheck(store, req) ==
  /\ req.action = "updatePlan013" \/ req.targetType = "segment"
  /\ ExistsOtherSegmentPlan(store, req.targetKey, req.planId)

HasPlan(store, planId) == \E i \in 1..Len(store) : store[i].id = planId

\* prisma.discountPlan.findUnique({where: {id}, include: {rules: true}}): the
\* stored plan, or null
FindUnique(store, planId) ==
  IF HasPlan(store, planId)
  THEN store[CHOOSE i \in 1..Len(store) : store[i].id = planId]
  ELSE NoPlan

\* prisma.discountPlan.findFirst({where: {name}}): the first such row, or null
FindFirstByName(store, name) ==
  IF \E i \in 1..Len(store) : store[i].name = name
  THEN store[CHOOSE i \in 1..Len(store) :
               /\ store[i].name = name
               /\ \A j \in 1..(i - 1) : store[j].name # name]
  ELSE NoPlan

\* some plan holds the rule row
HasRule(store, ruleId) ==
  \E i \in 1..Len(store) : \E k \in 1..Len(store[i].rules) : store[i].rules[k].id = ruleId

\* the admin request p moves to `pc` with `result`
AdminMoves(p, pc1, result) ==
  admins' = [admins EXCEPT ![p].pc = pc1, ![p].result = result]

\* every route action begins with `await authenticate.admin(request)`
\* (app._index.tsx 96, part_013 89, part_014 89, part_023 111), which throws the redirect to
\* the login when the request has no admin session
AdminAuthenticate(p) ==
  /\ admins[p].pc = "request"
  /\ \E session \in BOOLEAN :
       IF session THEN AdminMoves(p, "form", "none") ELSE AdminMoves(p, "done", "login")
  /\ UNCHANGED <<normalizer, draft, plans, offerVars, orderVars>>

\* `await request.formData()` (app._index.tsx 97, part_013 90, part_014 90,
\* part_023 112)
AdminFormData(p) ==
  /\ admins[p].pc = "form"
  /\ AdminMoves(p, "start", "none")
  /\ UNCHANGED <<normalizer, draft, plans, offerVars, orderVars>>

\* create and update, first store call: the duplicate check
\* (app._index.tsx 100-119, part_023 115-133, part_013 93-113, part_014 93-114)
AdminCheck(p) ==
  /\ admins[p].pc = "start"
  /\ admins[p].req.action \in {"create", "create023", "updatePlan013", "updatePlan014"}
  /\ IF DuplicateCheck(plans, admins[p].req)
     THEN AdminMoves(p, "done", "A discount plan for this segment already exists.")
     ELSE AdminMoves(p, "checked", "none")
  /\ UNCHANGED <<normalizer, draft, plans, offerVars, orderVars>>

\* create, second store call: prisma.discountPlan.create (app._index.tsx
\* 121-131, part_023 136-144); then Promise.all starts one prisma.rule.create
\* per rule (app._index.tsx 133-144, part_023 147-158)
AdminCreatePlan(p) ==
  /\ admins[p].pc = "checked"
  /\ admins[p].req.action \in {"create", "create023"}
  /\ plans' = Append(plans, [id |-> NewPlanId(p), name |-> PlanNames[p],
                             targetType |-> admins[p].req.targetType,
                             targetKey |-> admins[p].req.targetKey, rules |-> << >>])
  /\ admins' = [admins EXCEPT ![p].pc = "rules",
                              ![p].calls = 1..Len(admins[p].req.rules)]
  /\ UNCHANGED <<normalizer, draft, offerVars, orderVars>>

\* create, one prisma.rule.create of the Promise.all (app._index.tsx 133-144,
\* part_023 147-158): the row is written in the order the calls complete;
\* once the plan has been deleted the row is rejected and Promise.all
\* rejects, the calls still in flight being rejected as well; the catch of
\* app._index.tsx 156-161 answers, part_023 has no catch and the rejection
\* leaves the action
AdminCreateRule(p, k) ==
  /\ admins[p].pc = "rules"
  /\ k \in admins[p].calls
  /\ IF HasPlan(plans, NewPlanId(p))
     THEN /\ plans' = [i \in 1..Len(plans) |->
                         IF plans[i].id = NewPlanId(p)
                         THEN [plans[i] EXCEPT
                                 !.rules = Append(@, RuleRow(p, admins[p].req.rules, k))]
                         ELSE plans[i]]
          /\ admins' = [admins EXCEPT
                          ![p].calls = @ \ {k},
                          ![p].pc = IF admins[p].calls = {k} THEN "refetch" ELSE "rules"]
     ELSE /\ admins' = [admins EXCEPT
                          ![p].calls = {}, ![p].pc = "done",
                          ![p].result = IF admins[p].req.action = "create"
                                        THEN "Failed to create plan. Please try again."
                                        ELSE "Foreign key constraint failed"]
          /\ UNCHANGED plans
  /\ UNCHANGED <<normalizer, draft, offerVars, orderVars>>

\* create, last store call: prisma.discountPlan.findUnique and the answer
\* (app._index.tsx 146-155, part_023 161-166); `plan` is null when the plan
\* has been deleted
AdminRefetch(p) ==
  /\ admins[p].pc = "refetch"
  /\ admins' = [admins EXCEPT ![p].pc = "done",
                              ![p].result = IF admins[p].req.action = "create"
                                            THEN "created"
                                            ELSE "Plan created successfully",
                              ![p].plan = FindUnique(plans, NewPlanId(p))]
  /\ UNCHANGED <<normalizer, draft, plans, offerVars, orderVars>>

\* update, the write: part_013 123-153 (one transaction: plan fields, rules
\* replaced, targetType always "segment"), part_014 116-121 (plan fields only);
\* the update of a plan that is gone throws
AdminUpdate(p) ==
  /\ admins[p].pc = "checked"
  /\ admins[p].req.action \in {"updatePlan013", "updatePlan014"}
  /\ LET req == admins[p].req
         updated(plan) ==
           IF req.action = "updatePlan013"
           THEN [plan EXCEPT !.name = PlanNames[p], !.targetType = "segment",
                             !.targetKey = req.targetKey,
                             !.rules = [k \in 1..Len(req.rules) |-> RuleRow(p, req.rules, k)]]
           ELSE [plan EXCEPT !.name = PlanNames[p], !.targetType = req.targetType,
                             !.targetKey = req.targetKey]
     IN IF HasPlan(plans, req.planId)
        THEN /\ plans' = [i \in 1..Len(plans) |->
                            IF plans[i].id = req.planId THEN updated(plans[i]) ELSE plans[i]]
             /\ AdminMoves(p, "done", "updated")
        ELSE /\ AdminMoves(p, "done", "Record to update not found")
             /\ UNCHANGED plans
  /\ UNCHANGED <<normalizer, draft, offerVars, orderVars>>

\* delete: prisma.discountPlan.delete, the rule rows go with the plan; the
\* delete action of the index route answers in either case (app._index.tsx
\* 164-176), its copy answers or throws (part_023 169-175), the deletePlan
\* intent redirects or throws (part_013 156-159, part_014 149-152)
AdminDelete(p) ==
  /\ admins[p].pc = "start"
  /\ admins[p].req.action \in {"delete", "delete023", "deletePlan"}
  /\ IF HasPlan(plans, admins[p].req.planId)
     THEN /\ plans' = SelectSeq(plans, LAMBDA plan : plan.id # admins[p].req.planId)
          /\ AdminMoves(p, "done", IF admins[p].req.action \in {"delete", "delete023"}
                                   THEN "Plan deleted successfully" ELSE "redirect")
     ELSE /\ AdminMoves(p, "done", IF admins[p].req.action = "delete"
                                   THEN "Failed to delete plan. Please try again."
                                   ELSE "Record to delete does not exist")
          /\ UNCHANGED plans
  /\ UNCHANGED <<normalizer, draft, offerVars, orderVars>>

\* addRule (part_014 124-141): prisma.rule.create is called without the id
\* the Rule model requires (part_002 38), so the call is rejected and the
\* action throws; no row is written
AdminAddRule(p) ==
  /\ admins[p].pc = "start"
  /\ admins[p].req.action = "addRule"
  /\ IF ParseFloatIsNaN(admins[p].req.percentOff)
     THEN AdminMoves(p, "done", "Category and percent off are required")
     ELSE AdminMoves(p, "done", "Argument id is missing")
  /\ UNCHANGED <<normalizer, draft, plans, offerVars, orderVars>>

\* deleteRule (part_014 143-147): prisma.rule.delete removes the row of
\* whichever plan holds it and throws when the row is gone
AdminDeleteRule(p) ==
  /\ admins[p].pc = "start"
  /\ admins[p].req.action = "deleteRule"
  /\ IF HasRule(plans, admins[p].req.ruleId)
     THEN /\ plans' = [i \in 1..Len(plans) |->
                         [plans[i] EXCEPT
                            !.rules = SelectSeq(@, LAMBDA rule : rule.id # admins[p].req.ruleId)]]
          /\ AdminMoves(p, "done", "Rule deleted successfully")
     ELSE /\ AdminMoves(p, "done", "Record to delete does not exist")
          /\ UNCHANGED plans
  /\ UNCHANGED <<normalizer, draft, offerVars, orderVars>>

\* fixDiscountPlan, first store call: findFirst by the name "New Vip"
\* (fix-discount-plan.js 10-19)
AdminFixFind(p) ==
  /\ admins[p].pc = "start"
  /\ admins[p].req.action = "fixDiscountPlan"
  /\ LET existingPlan == FindFirstByName(plans, "New Vip")
     IN IF existingPlan = NoPlan
        THEN AdminMoves(p, "done", "No discount plan found with name New Vip")
        ELSE admins' = [admins EXCEPT ![p].pc = "found", ![p].plan = existingPlan]
  /\ UNCHANGED <<normalizer, draft, plans, offerVars, orderVars>>

\* fixDiscountPlan, second store call: the targetKey of the plan found is set
\* to "Vip" with no duplicate check; a failed update is caught and logged
\* (fix-discount-plan.js 27-42)
AdminFixUpdate(p) ==
  /\ admins[p].pc = "found"
  /\ IF HasPlan(plans, admins[p].plan.id)
     THEN /\ plans' = [i \in 1..Len(plans) |->
                         IF plans[i].id = admins[p].plan.id
                         THEN [plans[i] EXCEPT !.targetKey = sVipCap]
                         ELSE plans[i]]
          /\ AdminMoves(p, "done", "Updated plan")
     ELSE /\ AdminMoves(p, "done", "Error")
          /\ UNCHANGED plans
  /\ UNCHANGED <<normalizer, draft, offerVars, orderVars>>

AdminNext ==
  \/ \E p \in Admins : AdminAuthenticate(p)
  \/ \E p \in Admins : AdminFormData(p)
  \/ \E p \in Admins : AdminCheck(p)
  \/ \E p \in Admins : AdminCreatePlan(p)
  \/ \E p \in Admins : \E k \in admins[p].calls : AdminCreateRule(p, k)
  \/ \E p \in Admins : AdminRefetch(p)
  \/ \E p \in Admins : AdminUpdate(p)
  \/ \E p \in Admins : AdminDelete(p)
  \/ \E p \in Admins : AdminAddRule(p)
  \/ \E p \in Admins : AdminDeleteRule(p)
  \/ \E p \in Admins : AdminFixFind(p)
  \/ \E p \in Admins : AdminFixUpdate(p)

----------------------------------------------------------------------------
(* Identifier Normalizer (api.check-segment-discount.tsx 537-583), on the  *)
(* text of the identifiers                                                 *)

MaxIdLen == 2   \* longest identifier suffix tried

GidShopify == <<"g","i","d",":","/","/","s","h","o","p","i","f","y","/">>
\* the literals `gid://shopify/Product/`, `gid://shopify/ProductVariant/`,
\* `gid://shopify/Customer/`
ProductGidPrefix == GidShopify \o <<"P","r","o","d","u","c","t","/">>
VariantGidPrefix ==
  GidShopify \o <<"P","r","o","d","u","c","t","V","a","r","i","a","n","t","/">>
CustomerGidPrefix == GidShopify \o <<"C","u","s","t","o","m","e","r","/">>

DigitChars == <<"0","1","2","3","4","5","6","7","8","9">>
IsDigit(c) == \E d \in 1..10 : DigitChars[d] = c

\* s.startsWith(p)
startsWith(s, p) == Len(s) >= Len(p) /\ SubSeq(s, 1, Len(p)) = p

\* /^\d+$/.test(s)
AllDigits(s) == Len(s) > 0 /\ \A i \in 1..Len(s) : IsDigit(s[i])

\* s.replace(/\D/g, '')
StripNonDigits(s) == SelectSeq(s, IsDigit)

\* the longest run of digits of s that starts at position i
DigitRun(s, i) ==
  LET ends == { j \in (i - 1)..Len(s) : \A k \in i..j : IsDigit(s[k]) }
  IN SubSeq(s, i, CHOOSE j \in ends : \A k \in ends : k <= j)

\* s.match(/<p>(\d+)/): the capture group of the leftmost match, << >> for null
MatchDigitsAfter(s, p) ==
  LET at == { i \in 0..(Len(s) - Len(p) - 1) :
                /\ SubSeq(s, i + 1, i + Len(p)) = p
                /\ IsDigit(s[i + Len(p) + 1]) }
  IN IF at = {} THEN << >>
     ELSE DigitRun(s, (CHOOSE i \in at : \A j \in at : i <= j) + Len(p) + 1)

\* Number.prototype.toString / `${n}` for a natural number
RECURSIVE NumberToString(_)
NumberToString(n) ==
  IF n < 10 THEN <<DigitChars[n + 1]>>
  ELSE NumberToString(n \div 10) \o <<DigitChars[(n % 10) + 1]>>

\* JavaScript values handed to a normalizer; `text` is what `${value}` gives
JsNumber(n) == [type |-> "number", text |-> NumberToString(n)]
JsString(s) == [type |-> "string", text |-> s]
JsUndefined == [type |-> "undefined", text |-> <<"u","n","d","e","f","i","n","e","d">>]

\* a call returned a string, or ended in a TypeError
Returned(s) == [threw |-> FALSE, value |-> s]
Threw == [threw |-> TRUE, value |-> << >>]

\* a product normalizer that prefixes whatever it is given
FormatProductIdPrepend(x) == Returned(ProductGidPrefix \o x.text)

\* formatProductId, lines 538-560
FormatProductId(x) ==
  IF x.type = "number" THEN Returned(ProductGidPrefix \o x.text)
  ELSE IF x.type = "string" /\ startsWith(x.text, ProductGidPrefix) THEN Returned(x.text)
  ELSE IF x.type = "string" /\ AllDigits(x.text) THEN Returned(ProductGidPrefix \o x.text)
  ELSE IF /\ x.type = "string"
          /\ includes(x.text, ProductGidPrefix)
          /\ MatchDigitsAfter(x.text, ProductGidPrefix) # << >>
  THEN Returned(ProductGidPrefix \o MatchDigitsAfter(x.text, ProductGidPrefix))
  ELSE Returned(ProductGidPrefix \o x.text)

\* formatVariantId, lines 563-572; `variantId.toString()` of a missing value
\* is a TypeError
FormatVariantId(x) ==
  IF x.type = "string" /\ startsWith(x.text, VariantGidPrefix) THEN Returned(x.text)
  ELSE IF x.type = "string" THEN Returned(VariantGidPrefix \o StripNonDigits(x.text))
  ELSE IF x.type = "number" THEN Returned(VariantGidPrefix \o x.text)
  ELSE Threw

\* formatCustomerId, lines 575-583; `startsWith` and `replace` exist on
\* strings only
FormatCustomerId(x) ==
  IF x.type # "string" THEN Threw
  ELSE IF startsWith(x.text, CustomerGidPrefix) THEN Returned(x.text)
  ELSE Returned(CustomerGidPrefix \o StripNonDigits(x.text))

Normalizers == {"product", "variant", "customer"}

GidPrefixOf(fn) ==
  CASE fn = "product" -> ProductGidPrefix
    [] fn = "variant" -> VariantGidPrefix
    [] OTHER -> CustomerGidPrefix

Normalize(fn, x) ==
  CASE fn = "product" -> FormatProductId(x)
    [] fn = "variant" -> FormatVariantId(x)
    [] OTHER -> FormatCustomerId(x)

\* f(f(x)): the result of a call handed to the same normalizer; an exception
\* of the inner call is the outcome of the whole expression
NormalizeResult(fn, r) == IF r.threw THEN r ELSE Normalize(fn, JsString(r.value))

\* identifier texts: a suffix of digits and letters, bare, behind each
\* prefix, and behind each prefix inside a longer string
IdSuffixes == SeqsUpTo({"7", "a"}, MaxIdLen)
IdTexts ==
  IdSuffixes
  \cup { p \o s : p \in {ProductGidPrefix, VariantGidPrefix, CustomerGidPrefix}, s \in IdSuffixes }
  \cup { <<"x">> \o p \o s :
           p \in {ProductGidPrefix, VariantGidPrefix, CustomerGidPrefix}, s \in IdSuffixes }
IdValues == { JsString(s) : s \in IdTexts } \cup { JsNumber(7), JsNumber(12), JsUndefined }

NoNormalizer == [pc |-> "none"]

\* the first call: f(x)
NormalizeOnce ==
  /\ normalizer.pc = "input"
  /\ normalizer' = [normalizer EXCEPT !.pc = "once",
                                      !.once = Normalize(normalizer.fn, normalizer.input)]
  /\ UNCHANGED <<plans, admins, draft, offerVars, orderVars>>

\* the second call: f(f(x))
NormalizeTwice ==
  /\ normalizer.pc = "once"
  /\ normalizer' = [normalizer EXCEPT !.pc = "twice",
                                      !.twice = NormalizeResult(normalizer.fn, normalizer.once)]
  /\ UNCHANGED <<plans, admins, draft, offerVars, orderVars>>

NormalizerNext ==
  \/ NormalizeOnce
  \/ NormalizeTwice

----------------------------------------------------------------------------
(* Draft-order routes that take the discount from the request or from a    *)
(* discount service: api.simple-draft-order.tsx ("simple"), unnamed/       *)
(* part_019 ("simple019") and unnamed/part_009 ("discounted").  None of    *)
(* them reads a segment, a plan or a collection membership; every await is *)
(* a step.                                                                 *)

\* `${n}` / n.toString() for a natural number, as text
RECURSIVE DecimalText(_)
DecimalText(n) ==
  IF n < 10 THEN DigitChars[n + 1]
  ELSE DecimalText(n \div 10) \o DigitChars[(n % 10) + 1]

\* the largest h with 2^h <= n / d, for n, d > 0
RECURSIVE Log2Floor(_, _)
Log2Floor(n, d) ==
  IF n >= 2 * d THEN Log2Floor(n, 2 * d) + 1
  ELSE IF n < d THEN Log2Floor(2 * n, d) - 1
  ELSE 0

\* (x * 2^n) mod m
RECURSIVE TimesPow2Mod(_, _, _)
TimesPow2Mod(x, n, m) == IF n = 0 THEN x % m ELSE TimesPow2Mod((2 * x) % m, n - 1, m)

RECURSIVE Pow2(_)
Pow2(n) == IF n = 0 THEN 1 ELSE 2 * Pow2(n - 1)

\* Math.round((a / b) * 100) for integers a, b > 0 below 2^20, in the
\* arithmetic of doubles: a / b is rounded to 53 significant bits (ties to
\* even), the product with 100 is rounded again, and Math.round takes the
\* nearest integer, halves up.  The two roundings move the product by less
\* than 1 / (2 * b), so the result is that of the exact 100 * a / b unless
\* this is k + 1/2; then the result is k when the quotient was rounded down
\* (rho, the remainder of a * 2^(52 - h) by b, decides) by more than half a
\* step of the doubles below k + 1/2 is worth, and k + 1 otherwise
RoundPercent(a, b) ==
  LET k == (100 * a) \div b
      h == Log2Floor(a, b)
      rho == TimesPow2Mod(a, 52 - h, b)
      odd == TimesPow2Mod(a, 52 - h, 2 * b) >= b
      below == rho # 0 /\ (2 * rho < b \/ (2 * rho = b /\ ~odd))
      s == Log2Floor(2 * k + 1, 2) - h - (IF k = 0 THEN 1 ELSE 0)
  IN IF (200 * a) % (2 * b) # b THEN (200 * a + b) \div (2 * b)
     ELSE IF below /\ 200 * rho > b * Pow2(s) THEN k
     ELSE k + 1

\* no draft-order request
NoDraft == [pc |-> "none"]

\* the lineItems of a request body, or none
NoLineItems == [given |-> FALSE, list |-> << >>]
DraftLineItems ==
  { NoLineItems,
    [given |-> TRUE, list |-> << >>],
    [given |-> TRUE, list |-> <<[variantId |-> Variant11, quantity |-> 2]>>],
    [given |-> TRUE, list |-> <<[variantId |-> Variant11, quantity |-> 2],
                                [variantId |-> Variant21, quantity |-> 1]>>] }

\* the storefront cart of a request body, or none: numeric variant ids,
\* amounts in cents
NoCart == [given |-> FALSE, items |-> << >>, total_discount |-> 0, original_total_price |-> 0]
DraftCarts ==
  { NoCart }
  \cup [given : {TRUE}, items : {<<[variant_id |-> 11, quantity |-> 2]>>},
        total_discount : {0, 125, 575, 1500}, original_total_price : {0, 1000}]

\* the productIds of a request body, or none
NoProductIds == [given |-> FALSE, list |-> << >>]

\* bodies posted to the two simple routes; discountRate 0 stands for a rate
\* that is absent or 0, customerId "null" for null
SimpleRequests ==
  [route : {"simple", "simple019"}, customerId : {Customer7, "null"},
   lineItems : DraftLineItems, cart : DraftCarts, discountRate : {0, 90, 150},
   productIds : {NoProductIds}, quantity : {0}]

\* bodies posted to the discounted route; `quantity` is quantities[Product1],
\* 0 when the body names none
DiscountedRequests ==
  [route : {"discounted"}, customerId : {Customer7, "null"},
   lineItems : {NoLineItems}, cart : {NoCart}, discountRate : {0},
   productIds : {NoProductIds, [given |-> TRUE, list |-> <<Product1>>]}, quantity : {0, 3}]

\* finalLineItems: api.simple-draft-order.tsx 20-30 takes lineItems as they
\* are unless the body has a cart with items; part_019 18-41 maps the cart
\* first and lets an array of lineItems replace it
FinalLineItems(req) ==
  LET ofCart == [given |-> TRUE,
                 list |-> [i \in 1..Len(req.cart.items) |->
                             [variantId |-> DecimalText(req.cart.items[i].variant_id),
                              quantity |-> req.cart.items[i].quantity]]]
  IN IF req.route = "simple019" /\ req.lineItems.given THEN req.lineItems
     ELSE IF req.cart.given THEN ofCart
     ELSE req.lineItems

\* finalDiscountRate: the discountRate of the body, replaced by the cart's own
\* ratio when the cart has both amounts (api.simple-draft-order.tsx 21, 32-34;
\* part_019 19, 29-31)
FinalDiscountRate(req) ==
  IF req.cart.given /\ req.cart.total_discount # 0 /\ req.cart.original_total_price # 0
  THEN RoundPercent(req.cart.total_discount, req.cart.original_total_price)
  ELSE req.discountRate

\* one entry of graphqlLineItems (api.simple-draft-order.tsx 42-62, part_019 56-76)
DraftLineItem(item, rate) ==
  IF rate > 0
  THEN [variantId |-> item.variantId, quantity |-> item.quantity,
        appliedDiscount |-> [value |-> DecimalText(rate), valueType |-> "PERCENTAGE",
                             title |-> "Auto Discount"]]
  ELSE [variantId |-> item.variantId, quantity |-> item.quantity]

\* input of the draftOrderCreate mutation: api.simple-draft-order.tsx 66-71
\* writes the customerId whatever it is, part_019 80-87 leaves a null out
DraftPayload(req, items, rate) ==
  [customerId |-> IF req.route = "simple019" /\ req.customerId = "null" THEN "" ELSE req.customerId,
   lineItems |-> [i \in 1..Len(items) |-> DraftLineItem(items[i], rate)],
   useCustomerDefaultAddress |-> (req.route = "simple" \/ req.customerId # "null")]

\* the request ends with `resp`
DraftResponds(resp) == draft' = [draft EXCEPT !.pc = "done", !.response = resp]

\* the answers of the simple routes' catch blocks: api.simple-draft-order.tsx
\* 174-181, part_019 152-159
DraftFailed(error, details) ==
  [status |-> 400, success |-> FALSE, error |-> error, details |-> details]

\* api.simple-draft-order.tsx 134-171: whatever was thrown after the body was
\* read, the answer is a success with an invoice URL made up from the clock
FrontendMode ==
  [status |-> 200, success |-> TRUE,
   message |-> "Draft order created successfully (frontend mode)"]

\* the answer to an error thrown inside the handler after the body was read
DraftThrows(route, details) ==
  IF route = "simple" THEN DraftResponds(FrontendMode)
  ELSE DraftResponds(DraftFailed("Failed to create draft order", details))

\* `await request.json()` and the synchronous code up to the next await
\* (api.simple-draft-order.tsx 11-35, part_019 12-50)
DraftReadBody ==
  /\ draft.pc = "body"
  /\ draft.req.route \in {"simple", "simple019"}
  /\ \E parsed \in BOOLEAN :
       IF ~parsed
       THEN DraftResponds(DraftFailed(IF draft.req.route = "simple"
                                      THEN "Failed to process draft order"
                                      ELSE "Failed to create draft order",
                                      "Unexpected end of JSON input"))
       ELSE LET items == FinalLineItems(draft.req)
            IN IF draft.req.route = "simple019" /\ (~items.given \/ Len(items.list) = 0)
               THEN DraftResponds(DraftFailed("No line items provided",
                                              "Please provide cart items or line items"))
               ELSE draft' = [draft EXCEPT !.pc = "auth", !.items = items,
                                           !.rate = FinalDiscountRate(draft.req)]
  /\ UNCHANGED <<normalizer, admins, plans, offerVars, orderVars>>

\* `await authenticate.admin(request)` and the code up to the call of
\* admin.graphql (api.simple-draft-order.tsx 39-89, part_019 53-106): without
\* an admin session a Response is thrown; finalLineItems.map throws when the
\* body had neither lineItems nor a cart
DraftAuthenticate ==
  /\ draft.pc = "auth"
  /\ draft.req.route \in {"simple", "simple019"}
  /\ \E session \in BOOLEAN :
       IF ~session THEN DraftThrows(draft.req.route, "Unknown error")
       ELSE IF ~draft.items.given
       THEN DraftThrows(draft.req.route, "Cannot read properties of undefined")
       ELSE draft' = [draft EXCEPT
                        !.pc = "sink",
                        !.calls = Append(@, DraftPayload(draft.req, draft.items.list,
                                                         draft.rate))]
  /\ UNCHANGED <<normalizer, admins, plans, offerVars, orderVars>>

\* `await admin.graphql(...)` settles (api.simple-draft-order.tsx 65, part_019 82)
DraftSinkFetch ==
  /\ draft.pc = "sink"
  /\ draft.req.route \in {"simple", "simple019"}
  /\ \E rejected \in BOOLEAN :
       IF rejected THEN DraftThrows(draft.req.route, "fetch failed")
       ELSE draft' = [draft EXCEPT !.pc = "sinkBody"]
  /\ UNCHANGED <<normalizer, admins, plans, offerVars, orderVars>>

\* `await response.json()` settles and the answer is made
\* (api.simple-draft-order.tsx 91-132, part_019 108-150)
DraftSinkResult ==
  /\ draft.pc = "sinkBody"
  /\ draft.req.route \in {"simple", "simple019"}
  /\ \E result \in SinkResults \ {SinkUnreachable} :
       CASE HasUserErrors(result) ->
              DraftResponds([status |-> 400, success |-> FALSE,
                             error |-> "Failed to create draft order",
                             userErrors |-> result.userErrors])
         [] HasDraftOrder(result) ->
              DraftResponds([status |-> 200, success |-> TRUE,
                             message |-> "Real draft order created successfully"])
         [] result.outcome = "badJson" ->
              DraftThrows(draft.req.route, "Unexpected token < in JSON at position 0")
         [] OTHER ->
              DraftThrows(draft.req.route, "No draft order returned from Shopify API")
  /\ UNCHANGED <<normalizer, admins, plans, offerVars, orderVars>>

\* the answer of the discounted route's catch (part_009 166-172)
InternalServerError(details) ==
  [status |-> 500, error |-> "Internal server error", details |-> details]

\* `await authenticate.admin(request)` (part_009 13)
DiscountedAuthenticate ==
  /\ draft.pc = "auth"
  /\ draft.req.route = "discounted"
  /\ \E session \in BOOLEAN :
       IF session THEN draft' = [draft EXCEPT !.pc = "body"]
       ELSE DraftResponds(InternalServerError("Unknown error"))
  /\ UNCHANGED <<normalizer, admins, plans, offerVars, orderVars>>

\* `await request.json()`, the validation and the call of the discount
\* service (part_009 14-31)
DiscountedReadBody ==
  /\ draft.pc = "body"
  /\ draft.req.route = "discounted"
  /\ \E parsed \in BOOLEAN :
       IF ~parsed THEN DraftResponds(InternalServerError("Unexpected end of JSON input"))
       ELSE IF draft.req.customerId = "null" \/ ~draft.req.productIds.given
       THEN DraftResponds(
              [status |-> 400,
               error |-> "Missing required fields: customerId and productIds array are required"])
       ELSE draft' = [draft EXCEPT !.pc = "calc"]
  /\ UNCHANGED <<normalizer, admins, plans, offerVars, orderVars>>

\* `await fetch(origin + "/api/calculate-discount")` settles (part_009 24-31)
DiscountedCalcFetch ==
  /\ draft.pc = "calc"
  /\ \E rejected \in BOOLEAN :
       IF rejected THEN DraftResponds(InternalServerError("fetch failed"))
       ELSE draft' = [draft EXCEPT !.pc = "calcBody"]
  /\ UNCHANGED <<normalizer, admins, plans, offerVars, orderVars>>

\* what the discount service may answer: the route /api/calculate-discount is
\* not among the routes of the repository, so its answer is any of a refusal,
\* a body that is not JSON, and one product with a rate of its choosing
DiscountAnswers ==
  { [outcome |-> "badJson", products |-> << >>],
    [outcome |-> "refused", products |-> << >>] }
  \cup { [outcome |-> "ok",
          products |-> <<[productId |-> Product1, variantId |-> Variant11, discountRate |-> r]>>] :
           r \in {0, 20, 150} }

\* one entry of lineItems (part_009 43-63)
DiscountedLineItem(req, product) ==
  LET quantity == IF product.productId = Product1 /\ req.quantity # 0 THEN req.quantity ELSE 1
  IN IF product.discountRate > 0
     THEN [variantId |-> product.variantId, quantity |-> quantity,
           appliedDiscount |-> [value |-> DecimalText(product.discountRate),
                                valueType |-> "PERCENTAGE",
                                title |-> "Auto Discount (Custom)"]]
     ELSE [variantId |-> product.variantId, quantity |-> quantity]

\* variables.input of the draftOrderCreate mutation (part_009 120-128)
DiscountedPayload(req, products) ==
  [customerId |-> req.customerId,
   lineItems |-> [i \in 1..Len(products) |-> DiscountedLineItem(req, products[i])],
   useCustomerDefaultAddress |-> TRUE]

\* `await discountCalculationResponse.json()` settles and the code up to the
\* call of admin.graphql (part_009 33-129)
DiscountedCalcResult ==
  /\ draft.pc = "calcBody"
  /\ \E answer \in DiscountAnswers :
       CASE answer.outcome = "badJson" ->
              DraftResponds(InternalServerError("Unexpected token < in JSON at position 0"))
         [] answer.outcome = "refused" ->
              DraftResponds([status |-> 400, error |-> "Failed to calculate discounts"])
         [] OTHER ->
              draft' = [draft EXCEPT
                          !.pc = "sink",
                          !.calls = Append(@, DiscountedPayload(draft.req, answer.products))]
  /\ UNCHANGED <<normalizer, admins, plans, offerVars, orderVars>>

\* `await admin.graphql(...)` settles (part_009 66-129)
DiscountedSinkFetch ==
  /\ draft.pc = "sink"
  /\ draft.req.route = "discounted"
  /\ \E rejected \in BOOLEAN :
       IF rejected THEN DraftResponds(InternalServerError("fetch failed"))
       ELSE draft' = [draft EXCEPT !.pc = "sinkBody"]
  /\ UNCHANGED <<normalizer, admins, plans, offerVars, orderVars>>

\* `await draftOrderResponse.json()` settles and the answer is made
\* (part_009 131-164)
DiscountedSinkResult ==
  /\ draft.pc = "sinkBody"
  /\ draft.req.route = "discounted"
  /\ \E result \in SinkResults \ {SinkUnreachable} :
       CASE HasUserErrors(result) ->
              DraftResponds([status |-> 400, error |-> "Failed to create draft order",
                             userErrors |-> result.userErrors])
         [] HasDraftOrder(result) ->
              DraftResponds([status |-> 200, success |-> TRUE])
         [] result.outcome = "badJson" ->
              DraftResponds(InternalServerError("Unexpected token < in JSON at position 0"))
         [] OTHER ->
              DraftResponds(
                [status |-> 500,
                 error |-> "Failed to create draft order - no response from Shopify"])
  /\ UNCHANGED <<normalizer, admins, plans, offerVars, orderVars>>

DraftNext ==
  \/ DraftReadBody
  \/ DraftAuthenticate
  \/ DraftSinkFetch
  \/ DraftSinkResult
  \/ DiscountedAuthenticate
  \/ DiscountedReadBody
  \/ DiscountedCalcFetch
  \/ DiscountedCalcResult
  \/ DiscountedSinkFetch
  \/ DiscountedSinkResult

----------------------------------------------------------------------------
(* Specifications                                                          *)

vars == <<plans, offerVars, orderVars, admins, normalizer, draft>>

\* input profiles: rule-list variety, candidate variety, targetKey variety for
\* one tag, tag variety for one plan, several tags against several plans,
\* malformed requests
InitOffer ==
  /\ OfferInit
  /\ admins = NoAdmins
  /\ normalizer = NoNormalizer
  /\ draft = NoDraft
  /\ \/ /\ plans \in ResolverStores
        /\ offerRequest \in [kind : {"ok"}, tags : {<<sVip>>}, storeUrl : BOOLEAN]
     \/ /\ plans \in SelectorStores
        /\ offerRequest \in [kind : {"ok"}, tags : {<<sVip>>}, storeUrl : {FALSE}]
     \/ /\ plans \in CascadeStores
        /\ offerRequest \in [kind : {"ok"}, tags : { <<t>> : t \in TagUniverse },
                              storeUrl : {FALSE}]
     \/ /\ plans \in CascadeStores
        /\ Len(plans) = 1
        /\ offerRequest \in [kind : {"ok"}, tags : SeqsUpTo(TagUniverse, MaxTags),
                              storeUrl : {FALSE}]
     \/ /\ plans \in CascadePairStores
        /\ offerRequest \in [kind : {"ok"}, tags : SeqsUpTo({sVip, sVIP, sGold}, MaxTags),
                              storeUrl : {FALSE}]
     \/ /\ plans \in CascadeStores
        /\ Len(plans) = 1
        /\ offerRequest \in [kind : OfferRequestKinds \ {"ok"}, tags : {<<sVip>>},
                              storeUrl : {FALSE}]
  /\ OrderInit
  /\ orderRequest = [route |-> "none"]
  /\ world = [tags |-> << >>, segments |-> << >>, oracleFails |-> FALSE]

SpecOffer == InitOffer /\ [][OfferNext]_vars

\* the customer is tagged VIP; calls of the Membership Oracle may fail
VipWorld ==
  [tags |-> <<sVIP>>, segments |-> <<SegmentVip, SegmentGold>>, oracleFails |-> TRUE]

\* the same with a Membership Oracle that answers every call
SteadyVipWorld == [VipWorld EXCEPT !.oracleFails = FALSE]

\* carts and rule lists of the mixed profile: each product has its own best rule
MixedItems ==
  { [productId |-> Product1, variantId |-> Variant11, price |-> 100, quantity |-> 2],
    [productId |-> Product2, variantId |-> Variant21, price |-> 100, quantity |-> 1] }

MixedRules ==
  { [categoryId |-> Collection1, percentOff |-> 20],
    [categoryId |-> Collection2, percentOff |-> 15] }

\* two rules with the same percentage
TiedRules ==
  << [categoryId |-> Collection2, percentOff |-> 20],
     [categoryId |-> Collection1, percentOff |-> 20] >>

\* one line of each product
MixedCart ==
  << [productId |-> Product1, variantId |-> Variant11, price |-> 100, quantity |-> 2],
     [productId |-> Product2, variantId |-> Variant21, price |-> 100, quantity |-> 1] >>

SingleLine == [productId |-> Product1, variantId |-> Variant11, price |-> 100, quantity |-> 2]

\* a plan whose rule was stored with a percentage the create action did not
\* validate (app._index.tsx line 139: `percentOff: rule.percentOff`)
UnvalidatedStores ==
  { MkStore(<<[targetType |-> "segment", targetKey |-> SegmentVipId,
               rules |-> <<[categoryId |-> Collection1, percentOff |-> 150]>>]>>) }

\* input profiles: rule-list variety for one line, cart variety for one rule,
\* several lines against several rules, targetKey variety, tag and segment
\* variety, malformed requests and storefront cart objects
InitOrder ==
  /\ OrderInit
  /\ admins = NoAdmins
  /\ normalizer = NoNormalizer
  /\ draft = NoDraft
  /\ \/ /\ plans \in CalculatorStores
        /\ world = VipWorld
        /\ orderRequest \in [route : {"check", "real"}, shop : {TRUE}, customerId : {Customer7},
                              cartKind : {"array"}, items : { <<i>> : i \in MixedItems }]
     \/ /\ plans \in CalculatorStores
        /\ Range(plans[1].rules) \subseteq MixedRules \/ plans[1].rules = TiedRules
        /\ world = VipWorld
        /\ orderRequest \in [route : {"check", "real"}, shop : {TRUE}, customerId : {Customer7},
                              cartKind : {"array"}, items : {MixedCart}]
     \/ /\ plans \in CalculatorStores
        /\ Len(plans[1].rules) = 1
        /\ world = VipWorld
        /\ orderRequest \in [route : {"check", "real"}, shop : {TRUE}, customerId : {Customer7},
                              cartKind : {"array"}, items : SeqsUpTo(ArrayItems, MaxLines)]
     \/ /\ plans \in CalculatorStores
        /\ Range(plans[1].rules) \subseteq MixedRules
        /\ world = SteadyVipWorld
        /\ orderRequest \in [route : {"check", "real"}, shop : {TRUE}, customerId : {Customer7},
                              cartKind : {"array"}, items : SeqsUpTo(MixedItems, MaxLines)]
     \/ /\ plans \in MatchingStores
        /\ world \in [tags : {<<sVIP>>, <<sGold>>, <<sVip>>}, segments : SegmentCatalogs,
                       oracleFails : {TRUE}]
        /\ orderRequest \in [route : {"check", "real"}, shop : {TRUE}, customerId : {"7"},
                              cartKind : {"array"}, items : {<<SingleLine>>}]
     \/ /\ plans \in MatchingStores
        /\ Len(plans) = 1
        /\ world \in [tags : SeqsUpTo({sVIP, sGold, sVip}, MaxTags), segments : SegmentCatalogs,
                       oracleFails : {TRUE}]
        /\ orderRequest \in [route : {"check", "real"}, shop : {TRUE}, customerId : {"7"},
                              cartKind : {"array"}, items : {<<SingleLine>>}]
     \/ /\ plans \in CalculatorStores
        /\ Len(plans[1].rules) = 1
        /\ world = VipWorld
        /\ orderRequest \in
             [route : {"check", "real"}, shop : BOOLEAN, customerId : {"", "7"},
              cartKind : {"object"}, items : SeqsUpTo(ObjectItems, MaxLines)]
             \cup [route : {"check", "real"}, shop : BOOLEAN, customerId : {"", "7"},
                   cartKind : OrderCartKinds \ {"object"}, items : {<< >>}]
     \/ /\ plans \in UnvalidatedStores
        /\ world = SteadyVipWorld
        /\ orderRequest \in [route : {"check", "real"}, shop : {TRUE}, customerId : {Customer7},
                              cartKind : {"array"}, items : {<<SingleLine>>}]
  /\ OfferInit
  /\ offerRequest = [kind |-> "none"]

SpecOrder == InitOrder /\ [][OrderNext]_vars

\* either kind of request is received and handled by its route
InitAll == InitOffer \/ InitOrder

Next == OfferNext \/ OrderNext

Spec == InitAll /\ [][Next]_vars

\* admin requests against a Plan Store that holds at most one plan per segment
InitAdmin ==
  /\ OfferInit
  /\ offerRequest = [kind |-> "none"]
  /\ OrderInit
  /\ orderRequest = [route |-> "none"]
  /\ world = [tags |-> << >>, segments |-> << >>, oracleFails |-> FALSE]
  /\ plans \in AdminStores
  /\ \/ admins \in [Admins -> [req : AdminRequests, pc : {"request", "start"},
                             result : {"none"}, calls : {{}}, plan : {NoPlan}]]
     \/ admins \in [Admins -> [req : CopyRequests, pc : {"request"},
                             result : {"none"}, calls : {{}}, plan : {NoPlan}]]
  /\ \A p \in Admins :
       admins[p].pc = IF admins[p].req.action = "fixDiscountPlan" THEN "start" ELSE "request"
  /\ normalizer = NoNormalizer
  /\ draft = NoDraft

SpecAdmin == InitAdmin /\ [][AdminNext]_vars

InitNormalizer ==
  /\ OfferInit
  /\ offerRequest = [kind |-> "none"]
  /\ OrderInit
  /\ orderRequest = [route |-> "none"]
  /\ world = [tags |-> << >>, segments |-> << >>, oracleFails |-> FALSE]
  /\ plans = << >>
  /\ admins = NoAdmins
  /\ normalizer \in [fn : Normalizers, input : IdValues, pc : {"input"},
                     once : {Threw}, twice : {Threw}]
  /\ draft = NoDraft

SpecNormalizer == InitNormalizer /\ [][NormalizerNext]_vars

\* a request to a simple or discounted draft-order route; the Plan Store
\* holds a plan for the VIP segment, which these routes never read
InitDraft ==
  /\ OfferInit
  /\ offerRequest = [kind |-> "none"]
  /\ OrderInit
  /\ orderRequest = [route |-> "none"]
  /\ world = VipWorld
  /\ plans \in UnvalidatedStores
  /\ admins = NoAdmins
  /\ normalizer = NoNormalizer
  /\ \/ draft \in [req : SimpleRequests, pc : {"body"}, items : {NoLineItems}, rate : {0},
                     calls : {<< >>}, response : {NoResponse}]
     \/ draft \in [req : DiscountedRequests, pc : {"auth"}, items : {NoLineItems}, rate : {0},
                     calls : {<< >>}, response : {NoResponse}]

SpecDraft == InitDraft /\ [][DraftNext]_vars

----------------------------------------------------------------------------
(* Properties of the Offer route                                           *)

SetMax(S) == CHOOSE x \in S : \A y \in S : x >= y

PercentsFor(rules, c) ==
  { rules[i].percentOff : i \in { j \in 1..Len(rules) : rules[j].categoryId = c } }

CategoriesOf(rules) == { rules[i].categoryId : i \in 1..Len(rules) }

\* positions of a request whose collection metadata is being fetched
MetadataPcs == {"collections", "adminGraphql", "adminJson", "storeFetch", "storeJson"}

\* the rule map of the request has been built
Resolved ==
  \/ opc \in MetadataPcs
  \/ opc = "done" /\ offerResponse.status = 200 /\ offerResponse.offer.discountApplicable

\* the plan selection of the request has run
Selected ==
  /\ opc \in MetadataPcs \cup {"done"}
  /\ Len(discountPlans) > 0

\* maximum percentOff over a plan's rules, 0 without rules
MaxPercentOf(plan) ==
  IF Len(plan.rules) = 0 THEN 0
  ELSE SetMax({ plan.rules[i].percentOff : i \in 1..Len(plan.rules) })

GreatestPlanMax(dps) == SetMax({ MaxPercentOf(dps[i]) : i \in 1..Len(dps) })

FirstWithMax(dps) ==
  CHOOSE i \in 1..Len(dps) :
    /\ MaxPercentOf(dps[i]) = GreatestPlanMax(dps)
    /\ \A j \in 1..(i - 1) : MaxPercentOf(dps[j]) < GreatestPlanMax(dps)

\* C1: the resolved map of the selected plan has exactly one entry per distinct
\* categoryId of the plan's rules, and each entry is the maximum percentOff among
\* the rules of that categoryId.
C1_RuleMapIsMaxPerCategory ==
  Resolved =>
    /\ DOMAIN ruleMap = CategoriesOf(bestPlan.rules)
    /\ \A c \in DOMAIN ruleMap : ruleMap[c] = SetMax(PercentsFor(bestPlan.rules, c))
    /\ Range(collectionIds) = CategoriesOf(bestPlan.rules)
    /\ Len(collectionIds) = Cardinality(CategoriesOf(bestPlan.rules))

\* two rules for one collection at 10 and 20 were collapsed to one entry at 20
C1_Witness ==
  /\ Resolved
  /\ \E c \in Categories :
       /\ PercentsFor(bestPlan.rules, c) = {10, 20}
       /\ CategoriesOf(bestPlan.rules) = {c}
       /\ Len(collectionIds) = 1
       /\ ruleMap[c] = 20

\* C2: when a plan is selected it is the candidate with the greatest planMax, the
\* first such candidate in fetch order; a plan is selected whenever the greatest
\* planMax is positive.
C2_SelectsFirstGreatest ==
  Selected =>
    /\ bestPlan # NoPlan => bestPlan = discountPlans[FirstWithMax(discountPlans)]
    /\ GreatestPlanMax(discountPlans) > 0 => bestPlan # NoPlan

\* two candidates tie at the greatest planMax and the first was selected, after a
\* candidate with a smaller planMax was passed over
C2_Witness ==
  /\ Selected
  /\ Len(discountPlans) = 3
  /\ MaxPercentOf(discountPlans[1]) = 10
  /\ MaxPercentOf(discountPlans[2]) = 20
  /\ MaxPercentOf(discountPlans[3]) = 20
  /\ bestPlan = discountPlans[2]

\* C3: a plan without rules or with planMax 0 is never selected, and when no
\* candidate has a positive planMax the request ends with discountApplicable false.
C3_ZeroPlansNeverSelected ==
  Selected =>
    /\ bestPlan # NoPlan => (Len(bestPlan.rules) > 0 /\ MaxPercentOf(bestPlan) > 0)
    /\ GreatestPlanMax(discountPlans) = 0 =>
         /\ bestPlan = NoPlan
         /\ opc = "done"
         /\ offerResponse = NoOfferResponse

\* candidates exist, one without rules and one with a 0% rule, and no offer was made
C3_Witness ==
  /\ Selected
  /\ \E i, j \in 1..Len(discountPlans) :
       /\ Len(discountPlans[i].rules) = 0
       /\ Len(discountPlans[j].rules) = 1
       /\ discountPlans[j].rules[1].percentOff = 0
  /\ GreatestPlanMax(discountPlans) = 0
  /\ offerResponse = NoOfferResponse

----------------------------------------------------------------------------
(* Properties of the Order routes                                          *)

RECURSIVE SumTo(_, _)
\* f[1] + ... + f[n]
SumTo(f, n) == IF n = 0 THEN 0 ELSE f[n] + SumTo(f, n - 1)

\* percentOff computed for cart line i; 0 while nothing was computed for it
ComputedPercent(i) == IF i <= Len(linePercents) THEN linePercents[i] ELSE 0

\* index in applicableDiscounts of the record of finished line i (a line has a
\* record exactly when a rule was kept for it)
RecordIndex(i) == Cardinality({ j \in 1..i : linePercents[j] > 0 })

\* rules the Oracle reported line i's product to belong to
ReportedRules(i) == { j \in 1..Len(reports[i]) : reports[i][j] }

BestReported(i) ==
  SetMax({ discountPlan.rules[j].percentOff : j \in ReportedRules(i) } \cup {0})

\* C4: for every finished cart line the percentage applied is the highest
\* percentOff among the rules whose collection the Oracle reported the product
\* in; the first rule with that percentage supplies the collectionId; a line
\* reported in no collection has zero discount and no record.
C4_LineGetsHighestReportedPercent ==
  /\ Len(applicableDiscounts) = Cardinality({ i \in 1..Len(linePercents) : linePercents[i] > 0 })
  /\ \A i \in 1..Len(linePercents) :
       /\ linePercents[i] = BestReported(i)
       /\ ReportedRules(i) = {} => linePercents[i] = 0
       /\ linePercents[i] > 0 =>
            LET rec == applicableDiscounts[RecordIndex(i)]
                firstBest == CHOOSE j \in ReportedRules(i) :
                               /\ discountPlan.rules[j].percentOff = BestReported(i)
                               /\ \A k \in ReportedRules(i) :
                                    discountPlan.rules[k].percentOff = BestReported(i) => j <= k
            IN /\ rec.productId = processedCartItems[i].productId
               /\ rec.percentOff = BestReported(i)
               /\ rec.collectionId = discountPlan.rules[firstBest].categoryId

\* one line was reported in both collections of two rules with the same
\* percentage and took the first; another line was reported in none
C4_Witness ==
  /\ pc = "done"
  /\ Len(linePercents) = 2
  /\ Len(discountPlan.rules) = 2
  /\ discountPlan.rules[1].percentOff = 20
  /\ discountPlan.rules[2].percentOff = 20
  /\ discountPlan.rules[1].categoryId = Collection2
  /\ discountPlan.rules[2].categoryId = Collection1
  /\ reports[1] = <<TRUE, TRUE>>
  /\ reports[2] = <<FALSE, FALSE>>
  /\ Len(applicableDiscounts) = 1
  /\ applicableDiscounts[1].collectionId = Collection2

\* cart line a record of applicableDiscounts was made for
LineOfRecord(k) ==
  CHOOSE i \in 1..Len(linePercents) : linePercents[i] > 0 /\ RecordIndex(i) = k

\* C5: for every discounted cart line, originalPrice = unitPrice * quantity,
\* discountAmount = originalPrice * percentOff / 100 and
\* discountedPrice = originalPrice - discountAmount.
C5_LineAmounts ==
  \A k \in 1..Len(applicableDiscounts) :
    LET rec == applicableDiscounts[k]
        item == processedCartItems[LineOfRecord(k)]
    IN /\ rec.originalPrice = item.price * item.quantity
       /\ rec.discountAmount * 100 = rec.originalPrice * rec.percentOff
       /\ rec.discountedPrice = rec.originalPrice - rec.discountAmount

\* unitPrice 100, quantity 2, percentOff 15 gave 200, 30, 170
C5_Witness ==
  \E k \in 1..Len(applicableDiscounts) :
    /\ processedCartItems[LineOfRecord(k)].price = 100
    /\ processedCartItems[LineOfRecord(k)].quantity = 2
    /\ applicableDiscounts[k].percentOff = 15
    /\ applicableDiscounts[k].originalPrice = 200
    /\ applicableDiscounts[k].discountAmount = 30
    /\ applicableDiscounts[k].discountedPrice = 170

\* the totals a response carries: the discountSummary of a success response or
\* the body of the no-discount response
HasTotals(resp) ==
  \/ "discountSummary" \in DOMAIN resp
  \/ "totalOriginalPrice" \in DOMAIN resp

TotalsOf(resp) ==
  IF "discountSummary" \in DOMAIN resp THEN resp.discountSummary ELSE resp

\* the totals of the response are the sums over the cart and over the records
TotalsAreSums ==
  LET t == TotalsOf(orderResponse)
      lineTotals == [i \in 1..Len(processedCartItems) |->
                       processedCartItems[i].price * processedCartItems[i].quantity]
      amounts == [k \in 1..Len(t.applicableDiscounts) |->
                    t.applicableDiscounts[k].discountAmount]
  IN /\ t.totalOriginalPrice = SumTo(lineTotals, Len(lineTotals))
     /\ t.totalDiscountAmount = SumTo(amounts, Len(amounts))
     /\ t.applicableDiscounts = applicableDiscounts
     /\ t.savingsPercentage.num * t.totalOriginalPrice
          = t.savingsPercentage.den * t.totalDiscountAmount * 100
     /\ t.savingsPercentage.den > 0
     /\ t.totalOriginalPrice = 0 => t.savingsPercentage.num = 0

\* C6: in every order response that carries totals, totalOriginalPrice is the
\* sum of unitPrice * quantity over all cart lines (discounted or not),
\* totalDiscountAmount the sum of discountAmount over the discounted lines, and
\* savingsPercentage = totalDiscountAmount / totalOriginalPrice * 100, which is
\* 0 when totalOriginalPrice is 0.
C6_Totals ==
  HasTotals(orderResponse) => TotalsAreSums

\* C6 on the check-segment-discount route alone: every response of that route
\* that carries totals has them as the sums over the cart and the records.
C6_CheckRouteTotals ==
  (orderRequest.route = "check" /\ HasTotals(orderResponse)) => TotalsAreSums

\* a two-line cart with one discounted line: 15 saved on 300 is 5 percent
C6_Witness ==
  /\ orderRequest.route = "check"
  /\ HasTotals(orderResponse)
  /\ Len(processedCartItems) = 2
  /\ TotalsOf(orderResponse).totalOriginalPrice = 300
  /\ TotalsOf(orderResponse).totalDiscountAmount = 15
  /\ TotalsOf(orderResponse).savingsPercentage = [num |-> 5, den |-> 1]

\* a response of a cart worth 0 reported savings of 0
C6_WitnessZero ==
  /\ orderRequest.route = "check"
  /\ HasTotals(orderResponse)
  /\ TotalsOf(orderResponse).totalOriginalPrice = 0
  /\ TotalsOf(orderResponse).savingsPercentage.num = 0

HasDiscount(lineItem) == "appliedDiscount" \in DOMAIN lineItem

\* C7: the line set sent to the Order Sink has every cart line exactly once,
\* a line carries a percentage discount iff the percentOff computed for that
\* line is > 0, the attached percentage is the computed one, and the set goes
\* to the Sink with the customer reference in a single call.
C7_SubmittedLines ==
  /\ Len(sinkCalls) <= 1
  /\ \A c \in 1..Len(sinkCalls) :
       LET sent == sinkCalls[c].lineItems
       IN /\ sinkCalls[c].customerId # ""
          /\ Len(sent) = Len(processedCartItems)
          /\ \A i \in 1..Len(sent) :
               /\ sent[i].variantId = processedCartItems[i].variantId
               /\ sent[i].quantity = processedCartItems[i].quantity
               /\ HasDiscount(sent[i]) <=> ComputedPercent(i) > 0
               /\ HasDiscount(sent[i]) =>
                    sent[i].appliedDiscount.value =
                      IF orderRequest.route = "check" THEN ComputedPercent(i)
                      ELSE PercentToString(ComputedPercent(i))

\* the transitions of the documented state machine; a failure ends the request
\* from any stage that is not terminal
DocumentedEdges ==
  { <<"RECEIVED", "VALIDATED">>,
    <<"VALIDATED", "SEGMENT_MATCHED">>, <<"VALIDATED", "NO_MATCH">>,
    <<"SEGMENT_MATCHED", "PLAN_SELECTED">>, <<"SEGMENT_MATCHED", "NO_PLAN">>,
    <<"PLAN_SELECTED", "DISCOUNTS_COMPUTED">>,
    <<"DISCOUNTS_COMPUTED", "ORDER_SUBMITTED">>,
    <<"ORDER_SUBMITTED", "SUCCEEDED">>, <<"ORDER_SUBMITTED", "FAILED">> }
  \cup { <<st, "FAILED">> : st \in {"RECEIVED", "VALIDATED", "SEGMENT_MATCHED", "PLAN_SELECTED"} }

FollowsEdges(edges) ==
  /\ trace[1] = "RECEIVED"
  /\ \A i \in 1..(Len(trace) - 1) : <<trace[i], trace[i + 1]>> \in edges

Last(seq) == seq[Len(seq)]

Passed(stage) == \E i \in 1..Len(trace) : trace[i] = stage

\* C8 as stated: a check-segment-discount request moves only along the
\* documented transitions, NO_MATCH and NO_PLAN are terminal, and a request that
\* reached DISCOUNTS_COMPUTED goes on to ORDER_SUBMITTED and ends in SUCCEEDED or
\* FAILED.
C8_Original ==
  orderRequest.route = "check" =>
    /\ FollowsEdges(DocumentedEdges)
    /\ Last(trace) \in {"NO_MATCH", "NO_PLAN", "SUCCEEDED", "FAILED"} => pc = "done"
    /\ (pc = "done" /\ Passed("DISCOUNTS_COMPUTED")) =>
         (Passed("ORDER_SUBMITTED") /\ Last(trace) \in {"SUCCEEDED", "FAILED"})

\* C8 amended: a check-segment-discount request moves only along the documented
\* transitions extended by DISCOUNTS_COMPUTED -> NO_DISCOUNT; NO_MATCH, NO_PLAN
\* and NO_DISCOUNT are terminal; a request that reached DISCOUNTS_COMPUTED goes
\* on to ORDER_SUBMITTED and ends in SUCCEEDED or FAILED when at least one cart
\* line received a discount, and otherwise ends in NO_DISCOUNT with a non-error
\* discountApplicable:false response and without a Sink call.
C8_StateMachine ==
  orderRequest.route = "check" =>
    /\ FollowsEdges(DocumentedEdges \cup {<<"DISCOUNTS_COMPUTED", "NO_DISCOUNT">>})
    /\ Last(trace) \in {"NO_MATCH", "NO_PLAN", "NO_DISCOUNT", "SUCCEEDED", "FAILED"}
         <=> pc = "done"
    /\ Passed("DISCOUNTS_COMPUTED") =>
         IF Len(applicableDiscounts) > 0
         THEN /\ Passed("ORDER_SUBMITTED")
              /\ Len(sinkCalls) = 1
              /\ pc = "done" => Last(trace) \in {"SUCCEEDED", "FAILED"}
         ELSE /\ pc = "done"
              /\ Last(trace) = "NO_DISCOUNT"
              /\ sinkCalls = << >>
              /\ orderResponse.status = 200
              /\ ~orderResponse.discountApplicable

\* the stages of a create-real-draft-order request: NO_MATCH and NO_PLAN are
\* not terminal there; from them, as from DISCOUNTS_COMPUTED, the request
\* always goes on to ORDER_SUBMITTED and ends in SUCCEEDED or FAILED
CreateRealStages ==
  orderRequest.route = "real" =>
    /\ FollowsEdges(DocumentedEdges \cup {<<"NO_MATCH", "ORDER_SUBMITTED">>,
                                          <<"NO_PLAN", "ORDER_SUBMITTED">>})
    /\ Last(trace) \in {"SUCCEEDED", "FAILED"} <=> pc = "done"
    /\ (Passed("NO_MATCH") \/ Passed("NO_PLAN") \/ Passed("DISCOUNTS_COMPUTED")) =>
         (Passed("ORDER_SUBMITTED") /\ Len(sinkCalls) = 1)

\* a check request whose cart had no discounted line ended in NO_DISCOUNT
\* without a Sink call
C8_Witness ==
  /\ orderRequest.route = "check"
  /\ pc = "done"
  /\ trace = <<"RECEIVED", "VALIDATED", "SEGMENT_MATCHED", "PLAN_SELECTED",
               "DISCOUNTS_COMPUTED", "NO_DISCOUNT">>
  /\ Len(discountPlan.rules) > 0
  /\ Len(processedCartItems) = 2
  /\ applicableDiscounts = << >>
  /\ sinkCalls = << >>
  /\ orderResponse.status = 200

\* a segment of the catalog matches a tag and a plan with rules is stored
\* under its id or its name
MatchedPlanExists ==
  \E i \in 1..Len(world.segments), p \in 1..Len(plans) :
    /\ world.segments[i].name \in Range(world.tags)
    /\ plans[p].targetType = "segment"
    /\ plans[p].targetKey \in {world.segments[i].id, world.segments[i].name}
    /\ Len(plans[p].rules) > 0

\* the request found no segment for the tags, or no plan with rules for it
NothingResolved ==
  /\ Len(fetchCalls) = 2
  /\ pc \in {"sink", "sinkBody", "done"}
  /\ \/ Passed("NO_MATCH")
     \/ Passed("NO_PLAN")

\* C9: on either order route a request without a matching segment or without
\* a plan ends with a non-error discountApplicable:false response and never
\* calls the Order Sink; a Sink call implies a matched segment and a plan.
C9_Original ==
  /\ NothingResolved =>
       /\ sinkCalls = << >>
       /\ pc = "done"
       /\ orderResponse.status = 200
       /\ ~orderResponse.discountApplicable
  /\ Len(sinkCalls) > 0 => MatchedPlanExists

\* the plan lookups of a check request found no plan with rules for the
\* matched segment
NoPlanWithRules ==
  /\ orderRequest.route = "check"
  /\ pc \in {"allPlans", "done"}
  /\ Passed("SEGMENT_MATCHED")
  /\ (discountPlan = NoPlan \/ Len(discountPlan.rules) = 0)

\* the check-segment-discount route keeps to it: a request without a matching
\* segment or without a plan with rules ends with a non-error
\* discountApplicable:false response, or, when the store read made for that
\* answer is rejected, with a 500; it never calls the Order Sink, and a Sink
\* call implies a matched segment and a plan
C9_CheckRouteNoSinkWithoutPlan ==
  orderRequest.route = "check" =>
    /\ NothingResolved =>
         /\ sinkCalls = << >>
         /\ pc = "done"
         /\ orderResponse.status = 200
         /\ ~orderResponse.discountApplicable
    /\ NoPlanWithRules =>
         /\ sinkCalls = << >>
         /\ pc = "done" =>
              \/ Last(trace) = "NO_PLAN"
              \/ orderResponse =
                   [status |-> 500, error |-> "Internal error while checking segment discount"]
    /\ Len(sinkCalls) > 0 => MatchedPlanExists

\* the create-real-draft-order route submits such a cart all the same, whole
\* and with no line discount, in one Sink call
C9_CreateRealSubmitsUndiscounted ==
  (orderRequest.route = "real" /\ NothingResolved) =>
    /\ Len(sinkCalls) = 1
    /\ Len(sinkCalls[1].lineItems) = Len(processedCartItems)
    /\ \A i \in 1..Len(sinkCalls[1].lineItems) : ~HasDiscount(sinkCalls[1].lineItems[i])
    /\ applicableDiscounts = << >>

\* a check request ended in NO_PLAN for a matched segment whose plan has no rules
C9_Witness ==
  /\ orderRequest.route = "check"
  /\ pc = "done"
  /\ Last(trace) = "NO_PLAN"
  /\ discountPlan # NoPlan
  /\ sinkCalls = << >>
  /\ ~orderResponse.discountApplicable

\* a create-real request without a matching segment submitted its cart and
\* was answered with the draft order made of it
C9_WitnessReal ==
  /\ orderRequest.route = "real"
  /\ Passed("NO_MATCH")
  /\ Len(sinkCalls) = 1
  /\ pc = "done"
  /\ orderResponse.status = 200
  /\ orderResponse.success
  /\ ~orderResponse.discountSummary.discountApplicable

NoDuplicates(seq) == \A i, j \in 1..Len(seq) : seq[i] = seq[j] => i = j

\* C10: within one order request the Order Sink is called at most once, each
\* (line, rule) membership check and each catalog fetch is issued at most once,
\* and the step after a Sink call is the response to the caller, with no
\* further Sink, membership or catalog call.
C10_NoRetries ==
  /\ [](/\ Len(sinkCalls) <= 1
        /\ NoDuplicates(memberCalls)
        /\ NoDuplicates(fetchCalls))
  /\ [][(pc = "sink" \/ pc = "sinkBody") =>
          /\ (pc' = "done" \/ (pc = "sink" /\ pc' = "sinkBody"))
          /\ sinkCalls' = sinkCalls
          /\ memberCalls' = memberCalls
          /\ fetchCalls' = fetchCalls]_vars

\* a Sink failure was reported after one Sink call, in a request in which a
\* membership check had come back negative for a product of the collection
C10_Witness ==
  /\ pc = "done"
  /\ Last(trace) = "FAILED"
  /\ Passed("ORDER_SUBMITTED")
  /\ Len(sinkCalls) = 1
  /\ \E i \in 1..Len(reports) : \E j \in 1..Len(reports[i]) :
       /\ ~reports[i][j]
       /\ <<processedCartItems[i].productId, discountPlan.rules[j].categoryId>> \in Membership

\* the error list a failure response carries: graphqlErrors on the
\* check-segment-discount route, details on the create-real-draft-order route
ErrorListOf(resp) ==
  IF "graphqlErrors" \in DOMAIN resp THEN resp.graphqlErrors ELSE resp.details

\* C11: when the Order Sink answered a submission with validation errors, the
\* response is a failure (success false, an error status, no order reference)
\* whose error list is exactly the Sink's list, entry by entry in the same
\* order, and the submission was sent once: no line is resubmitted.
C11_ValidationErrorsVerbatim ==
  (pc = "done" /\ HasUserErrors(sinkResult)) =>
    /\ ~orderResponse.success
    /\ orderResponse.status \in {400, 500}
    /\ DOMAIN orderResponse \cap {"draftOrderUrl", "draftOrder", "discountSummary"} = {}
    /\ ErrorListOf(orderResponse) = sinkResult.userErrors
    /\ Len(sinkCalls) = 1

\* the list is the Sink's on the create-real-draft-order route always, and on
\* the check-segment-discount route when the answer carries no top-level
\* errors next to the validation errors; in every case the response is a
\* failure without an order reference and the submission was sent once
C11_VerbatimWithoutTopLevelErrors ==
  (pc = "done" /\ HasUserErrors(sinkResult)) =>
    /\ ~orderResponse.success
    /\ orderResponse.status \in {400, 500}
    /\ DOMAIN orderResponse \cap {"draftOrderUrl", "draftOrder", "discountSummary"} = {}
    /\ (~IsCheck \/ ~HasTopLevelErrors(sinkResult))
         => ErrorListOf(orderResponse) = sinkResult.userErrors
    /\ Len(sinkCalls) = 1

\* a check request whose Sink answer had top-level errors next to its
\* validation errors was answered with the top-level errors only
C11_ValidationErrorsReplaced ==
  /\ IsCheck
  /\ pc = "done"
  /\ sinkResult.outcome = "errorsAndUserErrors"
  /\ orderResponse.graphqlErrors = SinkGraphqlErrors
  /\ orderResponse.graphqlErrors # sinkResult.userErrors

\* a check request was answered with the two validation errors of the Sink in
\* the order the Sink gave them
C11_Witness ==
  /\ IsCheck
  /\ pc = "done"
  /\ sinkResult.outcome = "userErrors"
  /\ sinkResult.userErrors = <<UserErrorCustomer, UserErrorVariant>>
  /\ orderResponse.graphqlErrors = <<UserErrorCustomer, UserErrorVariant>>
  /\ Len(sinkCalls[1].lineItems) = 2

\* what strategy k finds in the store for the request's tags
StrategyResult(k) ==
  LET tags == MapSeq(offerRequest.tags, toLowerCase)
  IN CASE k = 1 -> FindManyByKeys(plans, Range(tags))
       [] k = 2 -> FindManyByKeys(plans, Range(MapSeq(tags, SegmentGid)))
       [] k = 3 -> FindManyByKeys(plans, Range(MapSeq(tags, toUpperCase)))
       [] k = 4 -> FindManyByKeys(plans, Range(MapSeq(tags, Capitalize)))
       [] OTHER -> ContainsMatch(plans, tags)

CascadeOver == opc \in MetadataPcs \cup {"done"} /\ strategiesRun # << >>

\* C12: the strategies are evaluated in the order 1..5; strategy k+1 is
\* evaluated only if strategies 1..k all found nothing, and the cascade ends
\* with the first strategy that found something (or with strategy 5), whose
\* result is the candidate list.
C12_CascadeShortCircuits ==
  /\ \A i \in 1..Len(strategiesRun) :
       /\ strategiesRun[i] = i
       /\ i <= 5
       /\ \A j \in 1..(i - 1) : StrategyResult(j) = << >>
  /\ CascadeOver =>
       /\ StrategyResult(Len(strategiesRun)) # << >> \/ Len(strategiesRun) = 5
       /\ discountPlans = StrategyResult(Len(strategiesRun))

\* strategy 1 found a plan and no other strategy was evaluated, although
\* strategy 3 would have found a plan too
C12_Witness ==
  /\ opc = "done"
  /\ strategiesRun = <<1>>
  /\ StrategyResult(1) # << >>
  /\ StrategyResult(3) # << >>
  /\ offerResponse.offer.discountApplicable

\* segment plans whose targetKey equals some tag of the request ignoring case
EqualIgnoringCase ==
  { i \in 1..Len(plans) :
      /\ plans[i].targetType = "segment"
      /\ \E t \in Range(offerRequest.tags) :
           toLowerCase(plans[i].targetKey) = toLowerCase(t) }

\* C13 as stated: strategy 1 finds every segment plan whose targetKey equals a
\* tag ignoring case, whatever the casing of the tag and of the stored key.
C13_Original ==
  strategiesRun = <<1>> =>
    \A i \in EqualIgnoringCase : plans[i] \in Range(discountPlans)

\* C13 amended: strategy 1 finds exactly the segment plans whose stored
\* targetKey equals the lower-cased form of a tag (any casing of the tag, the
\* key compared as stored); a plan whose key equals a tag only up to case is
\* left to the later strategies, and the cascade as a whole ends with a
\* non-empty candidate list whenever such a plan exists.
C13_Strategy1ExactOnLowercasedTag ==
  /\ strategiesRun = <<1>> =>
       discountPlans =
         SelectSeq(plans, LAMBDA p :
           /\ p.targetType = "segment"
           /\ \E t \in Range(offerRequest.tags) : p.targetKey = toLowerCase(t))
  /\ (CascadeOver /\ EqualIgnoringCase # {}) => discountPlans # << >>

\* the tag "vip" met the plan stored under "VIP" only in strategy 3
C13_Witness ==
  /\ opc = "done"
  /\ offerRequest.tags = <<sVip>>
  /\ Len(plans) = 1
  /\ plans[1].targetKey = sVIP
  /\ strategiesRun = <<1, 2, 3>>
  /\ discountPlans = plans
  /\ offerResponse.offer.discountApplicable

\* the lower-cased key of plan p contains the lower-cased tag t
KeyContainsTag(p, t) == includes(toLowerCase(p.targetKey), toLowerCase(t))

\* the lower-cased tag t contains the lower-cased key of plan p
TagContainsKey(p, t) == includes(toLowerCase(t), toLowerCase(p.targetKey))

\* C14 as stated: strategy 5 finds every segment plan whose key contains a tag
\* or is contained in a tag.
C14_Original ==
  Len(strategiesRun) = 5 =>
    \A i \in 1..Len(plans) :
      (/\ plans[i].targetType = "segment"
       /\ \E t \in Range(offerRequest.tags) :
            KeyContainsTag(plans[i], t) \/ TagContainsKey(plans[i], t))
      => plans[i] \in Range(discountPlans)

\* C14 amended: strategy 5 finds exactly the segment plans whose lower-cased
\* targetKey contains some lower-cased tag as a substring; a plan whose key is
\* only contained in a tag is not found.
C14_Strategy5KeyContainsTag ==
  Len(strategiesRun) = 5 =>
    discountPlans =
      SelectSeq(plans, LAMBDA p :
        /\ p.targetType = "segment"
        /\ \E t \in Range(offerRequest.tags) : KeyContainsTag(p, t))

\* the tag "vip-gold" strictly contains the key "vip" of the only plan and no
\* strategy matched: the request ended without an offer
C14_Witness ==
  /\ opc = "done"
  /\ offerRequest.tags = <<sVipGold>>
  /\ Len(plans) = 1
  /\ plans[1].targetType = "segment"
  /\ plans[1].targetKey = sVip
  /\ strategiesRun = <<1, 2, 3, 4, 5>>
  /\ discountPlans = << >>
  /\ ~offerResponse.offer.discountApplicable

\* plan p is found for the single tag t by cascade strategy k
TagFindsPlan(k, t, p) ==
  /\ p.targetType = "segment"
  /\ CASE k = 1 -> p.targetKey = toLowerCase(t)
       [] k = 2 -> p.targetKey = SegmentGid(toLowerCase(t))
       [] k = 3 -> p.targetKey = toUpperCase(toLowerCase(t))
       [] k = 4 -> p.targetKey = Capitalize(toLowerCase(t))
       [] OTHER -> KeyContainsTag(p, t)

\* positions of the tags that find some stored plan under strategy k
MatchingTagsAt(k, tags) ==
  { i \in 1..Len(tags) : \E j \in 1..Len(plans) : TagFindsPlan(k, tags[i], plans[j]) }

\* positions of the customer's tags that name some segment of the catalog
SegmentTagsAt(tags, segments) ==
  { i \in 1..Len(tags) : \E j \in 1..Len(segments) : segments[j].name = tags[i] }

\* C15 as stated: the plan (Offer route) and the segment (order routes) used
\* are those matched by the first tag, in list order, that matches anything.
C15_Original ==
  /\ (opc = "done" /\ bestPlan # NoPlan) =>
       LET k == Len(strategiesRun)
           hits == MatchingTagsAt(k, offerRequest.tags)
           first == CHOOSE i \in hits : \A j \in hits : i <= j
       IN TagFindsPlan(k, offerRequest.tags[first], bestPlan)
  /\ (pc = "done" /\ matchedSegment # NoSegment) =>
       LET hits == SegmentTagsAt(world.tags, world.segments)
           first == CHOOSE i \in hits : \A j \in hits : i <= j
       IN matchedSegment.name = world.tags[first]

\* C15 amended: the position of a tag in the tag list decides nothing. On the
\* Offer route the plans found for all tags together are the candidates and the
\* selected plan has the greatest maximum percentOff among them, whichever tag
\* found it; on the order routes the segment used is the first segment, in the
\* order of the segment catalog, whose name is any of the customer's tags.
C15_SelectionIgnoresTagOrder ==
  /\ (opc = "done" /\ bestPlan # NoPlan) =>
       LET k == Len(strategiesRun)
       IN /\ \A j \in 1..Len(plans) :
               (\E t \in Range(offerRequest.tags) : TagFindsPlan(k, t, plans[j]))
                 => /\ plans[j] \in Range(discountPlans)
                    /\ MaxPercentOf(plans[j]) <= MaxPercentOf(bestPlan)
          /\ \E t \in Range(offerRequest.tags) : TagFindsPlan(k, t, bestPlan)
  /\ (pc = "done" /\ matchedSegment # NoSegment) =>
       \E i \in 1..Len(world.segments) :
         /\ matchedSegment = world.segments[i]
         /\ matchedSegment.name \in Range(world.tags)
         /\ \A j \in 1..(i - 1) : world.segments[j].name \notin Range(world.tags)

\* the customer's first tag finds the 10% plan and the second tag the 20% plan:
\* the offer is built from the plan of the second tag
C15_Witness ==
  /\ opc = "done"
  /\ Len(offerRequest.tags) = 2
  /\ Len(discountPlans) = 2
  /\ strategiesRun = <<1>>
  /\ TagFindsPlan(1, offerRequest.tags[1], discountPlans[1])
  /\ TagFindsPlan(1, offerRequest.tags[2], discountPlans[2])
  /\ offerRequest.tags[1] # offerRequest.tags[2]
  /\ MaxPercentOf(discountPlans[1]) < MaxPercentOf(discountPlans[2])
  /\ bestPlan = discountPlans[2]
  /\ offerResponse.offer.discountApplicable

\* C16: a well-formed request whose tags find no plan under any of the five
\* strategies (the empty tag list included) is answered successfully, with an
\* offer that is exactly {discountApplicable: false}: no error status.
C16_NoMatchIsSuccess ==
  (/\ opc = "done"
   /\ offerRequest.kind = "ok"
   /\ \A k \in 1..5 : StrategyResult(k) = << >>)
  => /\ offerResponse.status = 200
     /\ offerResponse.success = TRUE
     /\ offerResponse.offer = [discountApplicable |-> FALSE]
     /\ DOMAIN offerResponse = {"status", "success", "offer"}
     /\ strategiesRun = <<1, 2, 3, 4, 5>>

\* a customer without tags asked a store that holds a plan with rules: all
\* five strategies ran and the offer is {discountApplicable: false}
C16_Witness ==
  /\ opc = "done"
  /\ offerRequest.kind = "ok"
  /\ offerRequest.tags = << >>
  /\ Len(plans) = 1
  /\ Len(plans[1].rules) > 0
  /\ strategiesRun = <<1, 2, 3, 4, 5>>
  /\ offerResponse.status = 200
  /\ offerResponse.offer = [discountApplicable |-> FALSE]

\* a customer whose only tag is unknown to the store got the same answer
C16_WitnessUnknownTag ==
  /\ opc = "done"
  /\ Len(offerRequest.tags) = 1
  /\ offerRequest.tags[1] # << >>
  /\ Len(plans) = 1
  /\ Len(plans[1].rules) > 0
  /\ strategiesRun = <<1, 2, 3, 4, 5>>
  /\ offerResponse.offer = [discountApplicable |-> FALSE]

\* the offer o is built from plan p and from nothing else
OfferBuiltFrom(o, p) ==
  LET cats == CategoriesOf(p.rules)
      n == Len(o.collections)
  IN /\ o.planName = p.name
     /\ n = Cardinality(cats)
     /\ { o.collections[i].id : i \in 1..n } = { NumericId(c) : c \in cats }
     /\ \A i \in 1..n : \E c \in cats :
          /\ o.collections[i].id = NumericId(c)
          /\ o.collections[i].percentOff = SetMax(PercentsFor(p.rules, c))
     /\ o.highestDiscountRate = SetMax({ o.collections[i].percentOff : i \in 1..n })

\* C17: an applicable offer is built from one plan, the selected one: planName
\* is its name, the collections are exactly the distinct categoryIds of its
\* rules, each once with its resolved percentOff, and highestDiscountRate is
\* the greatest percentOff among the offered collections.
C17_OfferFromSelectedPlan ==
  (opc = "done" /\ offerResponse.status = 200 /\ offerResponse.offer.discountApplicable)
  => /\ bestPlan \in Range(discountPlans)
     /\ OfferBuiltFrom(offerResponse.offer, bestPlan)
     /\ \A i \in 1..Len(discountPlans) :
          OfferBuiltFrom(offerResponse.offer, discountPlans[i])
            => MaxPercentOf(discountPlans[i]) = MaxPercentOf(bestPlan)

\* two plans with different collections were candidates; the offer shows the
\* one collection of the selected plan and nothing of the other plan
C17_Witness ==
  /\ opc = "done"
  /\ Len(discountPlans) = 2
  /\ CategoriesOf(discountPlans[1].rules) = {Collection1}
  /\ CategoriesOf(discountPlans[2].rules) = {Collection2}
  /\ bestPlan = discountPlans[2]
  /\ offerResponse.offer.discountApplicable
  /\ offerResponse.offer.planName = "Plan B"
  /\ Len(offerResponse.offer.collections) = 1
  /\ offerResponse.offer.collections[1].id = "2"
  /\ offerResponse.offer.highestDiscountRate = offerResponse.offer.collections[1].percentOff

\* a plan with rules on two collections, one of them twice, gave an offer of
\* two collections
C17_WitnessTwoCollections ==
  /\ opc = "done"
  /\ offerResponse.status = 200
  /\ offerResponse.offer.discountApplicable
  /\ Len(bestPlan.rules) = 3
  /\ Len(offerResponse.offer.collections) = 2
  /\ offerResponse.offer.collections[1].percentOff # offerResponse.offer.collections[2].percentOff

\* every reordering of the sequence s
Reorderings(s) ==
  { [i \in 1..Len(s) |-> s[f[i]]] : f \in Permutations(1..Len(s)) }

\* C18: the Rule Resolver is order-independent: resolving any permutation of
\* the selected plan's rule list gives the same collection -> percentOff map
\* as the one the request was answered from.
C18_ResolverOrderIndependent ==
  Resolved =>
    \A rs \in Reorderings(bestPlan.rules) :
      /\ ResolveRules(rs) = ruleMap
      /\ DOMAIN ResolveRules(rs) = CategoriesOf(bestPlan.rules)

\* three rules, two of them on one collection with the lower percentage
\* first, were resolved: the orders that put the higher one first give the
\* same map
C18_Witness ==
  /\ Resolved
  /\ Len(bestPlan.rules) = 3
  /\ bestPlan.rules[1].categoryId = bestPlan.rules[3].categoryId
  /\ bestPlan.rules[1].categoryId # bestPlan.rules[2].categoryId
  /\ bestPlan.rules[1].percentOff < bestPlan.rules[3].percentOff
  /\ ruleMap[bestPlan.rules[1].categoryId] = bestPlan.rules[3].percentOff
  /\ Cardinality(Reorderings(bestPlan.rules)) = 6

\* the percentages of the rules whose check for line l answered, without
\* failure, that the product belongs to the collection
AnsweredPercents(l) ==
  { discountPlan.rules[r].percentOff :
      r \in { q \in 1..Len(discountPlan.rules) :
                /\ <<l, q>> \notin failedCalls
                /\ <<processedCartItems[l].productId, discountPlan.rules[q].categoryId>>
                     \in Membership } }

\* every (line, rule) pair of the request, line by line
AllChecks ==
  { <<l, r>> : l \in 1..Len(processedCartItems), r \in 1..Len(discountPlan.rules) }

\* C19: a failed membership check counts as "does not belong": the rule gives
\* the line no discount, the remaining rules and lines are still checked, the
\* request is answered from the calculation, and the failed check is not
\* issued again.
C19_FailedCheckIsNotMember ==
  /\ \A c \in failedCalls :
       /\ c[1] <= Len(reports)
       /\ c[2] <= Len(reports[c[1]])
       /\ reports[c[1]][c[2]] = FALSE
       /\ Cardinality({ i \in 1..Len(memberCalls) : memberCalls[i] = c }) = 1
  /\ \A l \in 1..Len(linePercents) :
       linePercents[l] = SetMax(AnsweredPercents(l) \cup {0})
  /\ (failedCalls # {} /\ pc \in {"sink", "sinkBody", "done"}) =>
       /\ Range(memberCalls) = AllChecks
       /\ Len(linePercents) = Len(processedCartItems)
       /\ Passed("DISCOUNTS_COMPUTED")

\* the first check of a two-line, two-rule request failed for a product that
\* is in the 20% collection; the other three checks were made, the line got
\* the 15% of its second rule and the request was answered with the discounts
C19_Witness ==
  /\ pc = "done"
  /\ failedCalls = {<<1, 1>>}
  /\ Len(discountPlan.rules) = 2
  /\ <<processedCartItems[1].productId, discountPlan.rules[1].categoryId>> \in Membership
  /\ discountPlan.rules[1].percentOff = 20
  /\ discountPlan.rules[2].percentOff = 15
  /\ memberCalls = <<<<1, 1>>, <<1, 2>>, <<2, 1>>, <<2, 2>>>>
  /\ reports[1] = <<FALSE, TRUE>>
  /\ linePercents = <<15, 15>>
  /\ orderResponse.status = 200
  /\ orderResponse.success
  /\ orderResponse.discountSummary.discountApplicable
  /\ Len(sinkCalls) = 1

\* the collection metadata fetch of the answered request was attempted and failed
MetadataFetchFailed == opc = "done" /\ metadataFetch = "failed"

\* the offer went out with one entry per resolved collection, each with its
\* numeric id and its resolved percentOff
DegradedOfferKeepsRates ==
  /\ offerResponse.status = 200
  /\ offerResponse.success
  /\ offerResponse.offer.discountApplicable
  /\ Len(offerResponse.offer.collections) = Len(collectionIds)
  /\ \A i \in 1..Len(collectionIds) :
       /\ offerResponse.offer.collections[i].id = NumericId(collectionIds[i])
       /\ offerResponse.offer.collections[i].percentOff =
            SetMax(PercentsFor(bestPlan.rules, collectionIds[i]))

\* C20 as stated: after a failed metadata fetch the offer is applicable, ids
\* and percentages are correct, and title and handle are empty strings.
C20_Original ==
  MetadataFetchFailed =>
    /\ DegradedOfferKeepsRates
    /\ \A i \in 1..Len(offerResponse.offer.collections) :
         /\ offerResponse.offer.collections[i].title = ""
         /\ offerResponse.offer.collections[i].handle = ""

\* the entry of an offered collection without metadata
PlaceholderEntry(c) ==
  /\ c.handle = ""
  /\ c.id = "1" => c.title = "Collection 1"
  /\ c.id = "2" => c.title = "Collection 2"
  /\ c.id \in {"1", "2"}
  /\ c.name = c.title

\* positions of the collections whose own call on the store path failed
FailedStoreCalls ==
  { i \in 1..Len(collectionIds) :
      /\ collectionIds[i] \in DOMAIN metadataCalls
      /\ metadataCalls[collectionIds[i]] = "failed" }

\* C20 amended: after a failed metadata fetch the offer is applicable, ids and
\* percentages are correct, the handle is the empty string and the title (and
\* name) is the placeholder "Collection <numeric id>", never the empty string;
\* on the store path, where each collection has a call of its own, this holds
\* for each collection whose call failed.
C20_DegradedOfferHasPlaceholderTitle ==
  /\ MetadataFetchFailed =>
       /\ DegradedOfferKeepsRates
       /\ \A i \in 1..Len(offerResponse.offer.collections) :
            PlaceholderEntry(offerResponse.offer.collections[i])
  /\ (opc = "done" /\ FailedStoreCalls # {}) =>
       /\ DegradedOfferKeepsRates
       /\ \A i \in FailedStoreCalls : PlaceholderEntry(offerResponse.offer.collections[i])

\* on the store path the call of collection 1 failed and that of collection 2
\* found its metadata: the offer has a placeholder for 1 and the title of 2
C20_WitnessPartial ==
  /\ opc = "done"
  /\ metadataFetch = "partial"
  /\ Len(collectionIds) = 2
  /\ FailedStoreCalls = {1}
  /\ offerResponse.offer.collections[1].title = "Collection 1"
  /\ offerResponse.offer.collections[2].title # "Collection 2"

\* the fetch failed for a plan with rules on two collections: both are offered
\* with their percentages, placeholder titles and empty handles
C20_Witness ==
  /\ MetadataFetchFailed
  /\ offerResponse.offer.discountApplicable
  /\ Len(offerResponse.offer.collections) = 2
  /\ offerResponse.offer.collections[1] =
       [id |-> "1", title |-> "Collection 1", name |-> "Collection 1", handle |-> "",
        percentOff |-> 20]
  /\ offerResponse.offer.collections[2] =
       [id |-> "2", title |-> "Collection 2", name |-> "Collection 2", handle |-> "",
        percentOff |-> 10]

\* the order request lacks a field, or its cart is neither an array nor an
\* object with an items array, or the cart holds no items
MalformedOrder(req) ==
  \/ MissingFields(req)
  \/ req.cartKind \notin {"array", "object"}
  \/ req.items = << >>

\* no Catalog/Customer Service call, membership check or Order Sink call was made
NoExternalCall == fetchCalls = << >> /\ memberCalls = << >> /\ sinkCalls = << >>

\* C21 as stated: a malformed order request is answered 400 and nothing was
\* read or called before that answer.
C21_MalformedRejected ==
  (pc = "done" /\ orderRequest.route # "none" /\ MalformedOrder(orderRequest)) =>
    /\ orderResponse.status = 400
    /\ NoExternalCall

\* on the check-segment-discount route the rejection holds, and it is decided
\* in the first step of the request
C21_CheckRouteRejects ==
  (pc = "done" /\ orderRequest.route = "check" /\ MalformedOrder(orderRequest)) =>
    /\ orderResponse.status = 400
    /\ NoExternalCall
    /\ trace = <<"RECEIVED", "FAILED">>

\* the customer fetch, the first fetch of the request, went as `outcome`
CustomerFetchWas(outcome) == Len(fetchResults) >= 1 /\ fetchResults[1] = outcome

\* the segment catalog fetch, the second fetch of the request, failed
SegmentsFetchFailed == Len(fetchResults) = 2 /\ fetchResults[2] \in {"errors", "badJson", "unreachable"}

\* C22 as stated: an unknown customer is answered 404, a customer fetch or a
\* segment catalog fetch that is unreachable or returns errors is answered with
\* a 500-class status, and in none of these cases the Order Sink is called.
C22_AbsenceVersusFailure ==
  pc = "done" =>
    /\ CustomerFetchWas("notFound") => orderResponse.status = 404 /\ sinkCalls = << >>
    /\ (CustomerFetchWas("errors") \/ CustomerFetchWas("badJson")
          \/ CustomerFetchWas("unreachable")) =>
         orderResponse.status >= 500 /\ sinkCalls = << >>
    /\ SegmentsFetchFailed => orderResponse.status >= 500 /\ sinkCalls = << >>

\* what the routes do: every customer fetch that gives no customer, failed or
\* not, is answered 404; a failed segment catalog fetch is answered 500; the
\* Order Sink is not called
C22_CustomerFailureIsNotFound ==
  pc = "done" =>
    /\ (Len(fetchResults) = 1 /\ fetchResults[1] # "ok") =>
         /\ orderResponse = [status |-> 404, error |-> "Customer not found"]
         /\ sinkCalls = << >>
    /\ SegmentsFetchFailed => orderResponse.status = 500 /\ sinkCalls = << >>

\* the plan lookup of the request is over
PlanLookedUp ==
  /\ matchedSegment # NoSegment
  /\ pc \in {"membership", "membershipBody", "sink", "sinkBody", "done"}

\* the plan stored under the segment's identifier, else the plan stored under
\* the segment's name, else none
PlanUnderEitherKey(segment) ==
  IF FindFirstByKey(plans, segment.id) # NoPlan
  THEN FindFirstByKey(plans, segment.id)
  ELSE FindFirstByKey(plans, segment.name)

\* C23 as stated: the order routes look the plan up under the matched segment's
\* identifier first and under its name next, and apply what they find.
C23_LookupTriesBothKeys ==
  PlanLookedUp => discountPlan = PlanUnderEitherKey(matchedSegment)

\* the check-segment-discount route does so
C23_CheckRouteTriesBothKeys ==
  (PlanLookedUp /\ orderRequest.route = "check") =>
    discountPlan = PlanUnderEitherKey(matchedSegment)

\* the candidate plans the Offer route's cascade ends with for the lower-cased
\* tags: the result of the first strategy that finds something
RECURSIVE CascadeFrom(_, _, _)
CascadeFrom(store, tags, k) ==
  LET found == CASE k = 1 -> FindManyByKeys(store, Range(tags))
                 [] k = 2 -> FindManyByKeys(store, Range(MapSeq(tags, SegmentGid)))
                 [] k = 3 -> FindManyByKeys(store, Range(MapSeq(tags, toUpperCase)))
                 [] k = 4 -> FindManyByKeys(store, Range(MapSeq(tags, Capitalize)))
                 [] OTHER -> ContainsMatch(store, tags)
  IN IF found # << >> \/ k = 5 THEN found ELSE CascadeFrom(store, tags, k + 1)

\* the plan the Offer route selects for a customer with these tags
OfferPlanFor(store, tags) ==
  SelectBestPlan(CascadeFrom(store, MapSeq(tags, toLowerCase), 1)).bestPlan

\* the order request has matched the segment and looked the plan up
OrderResolved ==
  /\ Len(fetchResults) = 2
  /\ fetchResults[2] = "ok"
  /\ pc \in {"membership", "membershipBody", "sink", "sinkBody", "done"}

\* the plan an order request applies: the plan found, if it has rules
OrderPlanApplied == IF discountPlan # NoPlan /\ Len(discountPlan.rules) > 0 THEN discountPlan ELSE NoPlan

\* C24 as stated: for the same customer tags and Plan Store contents the plan an
\* order request resolves is the plan the Offer route resolves, or both resolve
\* none.
C24_SameResolution ==
  OrderResolved => OrderPlanApplied = OfferPlanFor(plans, world.tags)

\* the two resolutions do agree when the plan is stored under the segment's
\* name and a tag of the customer equals that name: the order route finds it by
\* name and the Offer route by its upper-case strategy
C24_AgreeOnNameKey ==
  /\ OrderResolved
  /\ orderRequest.route = "check"
  /\ OrderPlanApplied # NoPlan
  /\ OrderPlanApplied.targetKey = sVIP
  /\ OrderPlanApplied = OfferPlanFor(plans, world.tags)

\* segment plans that share their targetKey with another segment plan
DuplicateSegmentPlans ==
  { i \in 1..Len(plans) :
      /\ plans[i].targetType = "segment"
      /\ \E j \in 1..Len(plans) :
           /\ j # i
           /\ plans[j].targetType = "segment"
           /\ plans[j].targetKey = plans[i].targetKey }

\* C25 as stated: whatever admin create, update and delete requests have run,
\* interleaved or not, the Plan Store holds at most one plan per
\* (targetType = segment, targetKey) pair.
C25_OnePlanPerSegment ==
  (\A p \in Admins : admins[p].req.action \in {"create", "create023", "updatePlan013",
                                                "updatePlan014", "delete", "delete023",
                                                "deletePlan"})
  => DuplicateSegmentPlans = {}

\* the requests that write a plan's segment key through the admin routes
WritesSegmentKey(p) ==
  admins[p].req.action \in {"create", "create023", "updatePlan013", "updatePlan014"}

\* the repair script is among the requests
ScriptRuns == \E p \in Admins : admins[p].req.action = "fixDiscountPlan"

\* as long as no two admin requests have been between their duplicate check
\* and their write at the same time, the store stays free of duplicates: here
\* for the requests of which only one passed the check at all
C25_OnePlanPerSegmentWhenSerial ==
  (/\ ~ScriptRuns
   /\ \A p, q \in Admins :
        (p # q /\ WritesSegmentKey(p) /\ WritesSegmentKey(q)
               /\ admins[p].pc \in {"checked", "rules", "refetch", "done"}
               /\ admins[q].pc \in {"checked", "rules", "refetch", "done"})
          => \/ admins[p].result \in {"A discount plan for this segment already exists."}
             \/ admins[q].result \in {"A discount plan for this segment already exists."})
  => DuplicateSegmentPlans = {}

\* the repair script alone, with no other request in flight, leaves two plans
\* for the segment key "Vip"
C25_ScriptDuplicates ==
  /\ \E p \in Admins : admins[p].req.action = "fixDiscountPlan" /\ admins[p].result = "Updated plan"
  /\ \A p \in Admins :
       admins[p].req.action # "fixDiscountPlan" => admins[p].pc \in {"request", "form", "start"}
  /\ DuplicateSegmentPlans # {}

\* an admin create answered success with `plan: null`: the plan was deleted
\* between its rule rows and the final read
C25_CreatedWithoutPlan ==
  \E p \in Admins :
    /\ admins[p].result \in {"created", "Plan created successfully"}
    /\ admins[p].plan = NoPlan

----------------------------------------------------------------------------
(* Termination of an order request                                         *)

\* the steps the handler takes on its own: validation, the session and plan
\* reads of the local store
OrderLocalStep ==
  \/ OrderReceive
  \/ OrderSession
  \/ OrderPlanById
  \/ OrderPlanByName
  \/ OrderAllPlans

\* the steps that happen when a remote call answers or its body arrives:
\* fetchCustomerData, fetchSegments, checkProductInCollection and
\* createDraftOrder await `fetch(...)` (check lines 590, 627, 668, 441) and the
\* body read (lines 610, 649, 693, 453) without a signal or timer, so no step
\* of the handler is enabled while either is outstanding
OrderRemoteAnswer ==
  \/ OrderCustomerFetch
  \/ OrderCustomerResult
  \/ OrderSegmentsFetch
  \/ OrderSegmentsResult
  \/ OrderMembershipFetch
  \/ OrderMembershipResult
  \/ OrderSinkFetch
  \/ OrderSinkResult

\* order requests with a one-line cart
InitOrderLive ==
  /\ InitOrder
  /\ Len(orderRequest.items) <= 1

\* the handler always takes its own steps; a remote call answers or does not
SpecOrderLive == InitOrderLive /\ [][OrderNext]_vars /\ WF_vars(OrderLocalStep)

\* the request has returned a response
OrderReturned == pc = "done" /\ orderResponse # NoResponse

\* C26 as stated: every order request terminates, also when a remote call
\* (customer fetch, segment fetch, membership check, order submission) never
\* answers: the call times out, counts as failed and the request returns.
C26_EveryRequestTerminates == <>OrderReturned

\* a request whose remote calls all answer returns a response
C26_TerminatesWhenAnswered == WF_vars(OrderRemoteAnswer) => <>OrderReturned

\* a remote call is outstanding
C26_AwaitingRemote ==
  /\ pc \in {"customer", "customerBody", "segments", "segmentsBody", "membership",
             "membershipBody", "sink", "sinkBody"}
  /\ orderResponse = NoResponse

----------------------------------------------------------------------------
(* Properties of the Identifier Normalizer                                 *)

\* the canonical form for a normalizer: its prefix followed by digits
IsCanonical(fn, x) ==
  /\ x.type = "string"
  /\ startsWith(x.text, GidPrefixOf(fn))
  /\ AllDigits(SubSeq(x.text, Len(GidPrefixOf(fn)) + 1, Len(x.text)))

\* C27: each of the product, variant and customer normalizers returns an
\* identifier in canonical prefixed form unchanged, and normalizing a
\* normalized identifier gives the same outcome: f(f(x)) = f(x).
C27_NormalizerIdempotent ==
  /\ (normalizer.pc \in {"once", "twice"} /\ IsCanonical(normalizer.fn, normalizer.input))
       => normalizer.once = Returned(normalizer.input.text)
  /\ normalizer.pc = "twice" => normalizer.twice = normalizer.once

\* an identifier that the first call rewrote has gone through a second call
C27_Witness ==
  /\ normalizer.pc = "twice"
  /\ ~normalizer.once.threw
  /\ normalizer.once.value # normalizer.input.text
  /\ normalizer.twice = normalizer.once

\* a canonical identifier has gone through both calls
C27_WitnessCanonical ==
  /\ normalizer.pc = "twice"
  /\ IsCanonical(normalizer.fn, normalizer.input)
  /\ normalizer.twice = Returned(normalizer.input.text)

\* an identifier with no recognizable numeric part: a missing value, or a
\* string without a digit
NoNumericSuffix(x) ==
  \/ x.type = "undefined"
  \/ x.type = "string" /\ StripNonDigits(x.text) = << >>

\* C28 as stated: a normalizer never throws on a malformed identifier; given
\* one with no recognizable numeric suffix (a non-numeric string, a missing
\* value) it returns the input unchanged.
C28_MalformedReturnedUnchanged ==
  (normalizer.pc \in {"once", "twice"} /\ NoNumericSuffix(normalizer.input))
    => normalizer.once = Returned(normalizer.input.text)

\* the product normalizer returns a string for every input, and no normalizer
\* throws on a string
C28_StringsNeverThrow ==
  (normalizer.pc \in {"once", "twice"}
   /\ (normalizer.fn = "product" \/ normalizer.input.type = "string"))
    => ~normalizer.once.threw

\* a check-route request whose cart line has no variant_id was answered 500
C28_MissingVariantFailsRequest ==
  /\ pc = "done"
  /\ orderRequest.route = "check"
  /\ orderRequest.cartKind = "object"
  /\ \E i \in 1..Len(orderRequest.items) : orderRequest.items[i].variant_id = NoVariantId
  /\ orderResponse = [status |-> 500, error |-> "Failed to process cart items"]

----------------------------------------------------------------------------
(* Bounds of an applied discount                                           *)

\* C29 as stated: every applied-discount record of an order request has
\* 0 < percentOff <= 100, 0 < discountAmount <= originalPrice and
\* discountedPrice >= 0, whatever rules the Plan Store holds.
C29_DiscountWithinLine ==
  \A i \in 1..Len(applicableDiscounts) :
    /\ 0 < applicableDiscounts[i].percentOff
    /\ applicableDiscounts[i].percentOff <= 100
    /\ 0 < applicableDiscounts[i].discountAmount
    /\ applicableDiscounts[i].discountAmount <= applicableDiscounts[i].originalPrice
    /\ applicableDiscounts[i].discountedPrice >= 0

\* every rule of every stored plan has a percentage of at most 100
RulesWithinHundred ==
  \A p \in 1..Len(plans) : \A r \in 1..Len(plans[p].rules) : plans[p].rules[r].percentOff <= 100

\* with rules of at most 100 percent a record has 0 < percentOff <= 100,
\* 0 <= discountAmount <= originalPrice and discountedPrice >= 0
C29_WithinLineForRulesUpToHundred ==
  RulesWithinHundred =>
    \A i \in 1..Len(applicableDiscounts) :
      /\ 0 < applicableDiscounts[i].percentOff
      /\ applicableDiscounts[i].percentOff <= 100
      /\ 0 <= applicableDiscounts[i].discountAmount
      /\ applicableDiscounts[i].discountAmount <= applicableDiscounts[i].originalPrice
      /\ applicableDiscounts[i].discountedPrice >= 0

\* a record for a line discounted by more than its price
C29_OverHundredApplied ==
  /\ Len(applicableDiscounts) > 0
  /\ applicableDiscounts[1].percentOff = 150
  /\ applicableDiscounts[1].discountedPrice < 0

\* a record for a line without a price: the discount amounts to nothing
C29_FreeLineApplied ==
  /\ Len(applicableDiscounts) > 0
  /\ applicableDiscounts[1].originalPrice = 0
  /\ applicableDiscounts[1].discountAmount = 0

----------------------------------------------------------------------------
(* The tag behind an offer                                                 *)

\* the Offer route answered with an applicable offer
OfferGranted ==
  /\ opc = "done"
  /\ offerRequest.kind = "ok"
  /\ offerResponse.status = 200
  /\ offerResponse.offer.discountApplicable

\* positions of the customer's tags that find the selected plan under one of
\* the five strategies
TagsBehindOffer ==
  { i \in 1..Len(offerRequest.tags) :
      \E k \in 1..5 : TagFindsPlan(k, offerRequest.tags[i], bestPlan) }

\* C30 as stated: an offer is applicable only if some non-empty customer tag
\* matches the selected plan's targetKey under one of the five strategies; a
\* customer whose only tags are empty strings receives no offer.
C30_OfferOnRealTagOnly ==
  OfferGranted => \E i \in TagsBehindOffer : offerRequest.tags[i] # sEmpty

\* an applicable offer rests on some tag of the customer, empty or not, that
\* matches the selected plan's targetKey
C30_OfferOnSomeTag == OfferGranted => TagsBehindOffer # {}

\* a customer whose only tag is the empty string received an offer
C30_EmptyTagOffered ==
  /\ OfferGranted
  /\ Len(offerRequest.tags) > 0
  /\ \A i \in 1..Len(offerRequest.tags) : offerRequest.tags[i] = sEmpty
  /\ strategiesRun = <<1, 2, 3, 4, 5>>

----------------------------------------------------------------------------
(* The draft-order routes that read no plan                                *)

\* a simple route sends at most one draftOrderCreate, and every line of it
\* carries the rate computed from the body alone: the discountRate sent by the
\* caller or the ratio of the cart's amounts, whatever the Plan Store holds
DraftRateFromBody ==
  (draft.pc # "none" /\ draft.req.route \in {"simple", "simple019"})
    => /\ Len(draft.calls) <= 1
       /\ \A c \in 1..Len(draft.calls) : \A i \in 1..Len(draft.calls[c].lineItems) :
            LET line == draft.calls[c].lineItems[i]
                rate == FinalDiscountRate(draft.req)
            IN IF rate > 0
               THEN /\ "appliedDiscount" \in DOMAIN line
                    /\ line.appliedDiscount.value = DecimalText(rate)
               ELSE "appliedDiscount" \notin DOMAIN line

\* a rate of 150 percent sent by the caller reaches the Sink
DraftRateAboveHundred ==
  /\ draft.pc = "done"
  /\ draft.req.route \in {"simple", "simple019"}
  /\ Len(draft.calls) = 1
  /\ Len(draft.calls[1].lineItems) > 0
  /\ "appliedDiscount" \in DOMAIN draft.calls[1].lineItems[1]
  /\ draft.calls[1].lineItems[1].appliedDiscount.value = "150"
  /\ draft.response.status = 200

\* the simple route answers success although no draft order was created
DraftSuccessWithoutOrder ==
  /\ draft.pc = "done"
  /\ draft.req.route = "simple"
  /\ draft.calls = << >>
  /\ draft.response = FrontendMode

\* a cart discounted by 5.75 of 10.00 is given 57 percent: the quotient of
\* the doubles is below 0.575 and the product below 57.5
DraftRateRoundedDown ==
  /\ draft.pc = "done"
  /\ draft.req.cart.given
  /\ draft.req.cart.total_discount = 575
  /\ draft.req.cart.original_total_price = 1000
  /\ draft.rate = 57

====
